---- MODULE Spec2Model ----
(***************************************************************************)
(* Model of planet-exporter's inventory resolution (collector/task/        *)
(* inventory) and socket correlation (collector/task/socketstat).          *)
(*                                                                         *)
(* Strings are sequences of one-token strings, so that concatenation,      *)
(* strings.Contains and the parsers work on what the text holds.  IP       *)
(* addresses are AddrBits wide instead of 32 bits; an address is written   *)
(* as one numeral token, a network as <<numeral, "/", numeral>>.           *)
(***************************************************************************)
EXTENDS Integers, Sequences, FiniteSets, Bags, TLC

VARIABLES
    pc,          \* position of the harness that drives the pure functions
    hosts,       \* argument of parseInventory
    inventory,   \* value returned by parseInventory
    address,     \* argument of Inventory.GetHost
    got,         \* (Host, bool) returned by Inventory.GetHost
    values,               \* inventory singleton.values
    serverConnectionStat, \* what network.ServerConnections returns on this host
    currentIP,            \* what network.LocalIP returns on this host
    serverProcesses,      \* socketstat singleton.serverProcesses
    upstreams,            \* socketstat singleton.upstreams
    downstreams,          \* socketstat singleton.downstreams
    inventoryHosts,       \* history: what inventory.Get returned to the last Collect
    upstreamsFrom,        \* history: index of the peered socket behind each upstream
    downstreamsFrom,      \* history: index of the peered socket behind each downstream
    format,               \* argument of parseHosts: the inventory format
    data,                 \* argument of parseHosts: the JSON values of the response body
    parseResult,          \* what parseHosts did: whether it returned, its error, its hosts
    config,               \* Service.Config: what the InitTask calls are given
    inventoryTask,        \* inventory singleton, its containers held by reference
    socketstatTask,       \* socketstat singleton, its lists held by reference
    heap,                 \* the maps and slices that were made, by reference
    scheduler,            \* the goroutine of Service.collect
    reader,               \* a goroutine that calls socketstat.Get and inventory.Get
    Collectors,           \* PlanetCollector.Collectors: the names of the saved collectors
    collect_pc,           \* position of the goroutine that runs PlanetCollector.Collect
    wg,                   \* counter of the WaitGroup of PlanetCollector.Collect
    exec,                 \* the goroutine of each collector: position and locals of collectorExec
    ch,                   \* the metrics sent on the channel so far, as a bag
    now,                  \* time since Service.collect made its tickers, in base intervals
    tickerC,              \* the channels of inventoryTicker and defaultTicker: ticks waiting
    loop,                 \* the goroutine of Service.collect, with its Collect calls as goroutine frames
    calls,                \* the Collect calls that are executing
    snapshot,             \* what the two singletons publish: which Collect call made it
    mutex,                \* singleton.mu of each task: the holder
    getter                \* a goroutine that calls socketstat.Get

inventoryVars == <<hosts, inventory, address, got>>

parseHostsVars == <<format, data, parseResult>>

socketstatVars == <<values, serverConnectionStat, currentIP, serverProcesses,
                    upstreams, downstreams, inventoryHosts, upstreamsFrom, downstreamsFrom>>

serviceVars == <<config, inventoryTask, socketstatTask, heap, scheduler, reader>>

collectorVars == <<Collectors, collect_pc, wg, exec, ch>>

cycleVars == <<now, tickerC, loop, calls, snapshot, mutex, getter>>

vars == <<pc, inventoryVars, socketstatVars, parseHostsVars, serviceVars, collectorVars,
          cycleVars>>

-----------------------------------------------------------------------------
(* Bounds *)

AddrBits == 2
MaxHosts == 2
MaxPeered == 2
MaxListening == 2
MaxEntries == 3
MaxTicks == 2
MaxCollectors == 2
MaxClock == 26
MaxLookups == 2

-----------------------------------------------------------------------------
(* Addresses and their text *)

IPs == 0 .. (2^AddrBits - 1)

NoIP == 0 - 1

IPString(n) == <<ToString(n)>>

CIDRString(n, ones) == <<ToString(n), "/", ToString(ones)>>

\* strings.Contains(s, "/")
ContainsSlash(s) == \E k \in 1..Len(s) : s[k] = "/"

\* net.ParseIP: the address a text denotes, NoIP (nil) when it is not an address
ParseIP(s) ==
    IF Len(s) = 1 /\ \E n \in IPs : s[1] = ToString(n)
    THEN CHOOSE n \in IPs : s[1] = ToString(n)
    ELSE NoIP

\* IP.Mask: keep the leading ones bits
MaskIP(ip, ones) == (ip \div 2^(AddrBits - ones)) * 2^(AddrBits - ones)

\* net.ParseCIDR: ok and the network (masked address, prefix length) of a text
ParseCIDR(s) ==
    IF /\ Len(s) = 3
       /\ s[2] = "/"
       /\ ParseIP(<<s[1]>>) # NoIP
       /\ \E ones \in 0..AddrBits : s[3] = ToString(ones)
    THEN LET ones == CHOOSE o \in 0..AddrBits : s[3] = ToString(o)
         IN  [ok |-> TRUE, network |-> [IP |-> MaskIP(ParseIP(<<s[1]>>), ones), ones |-> ones]]
    ELSE [ok |-> FALSE, network |-> [IP |-> NoIP, ones |-> 0]]

\* IPNet.Contains: a nil address is in no network
Contains(network, ip) == ip # NoIP /\ MaskIP(ip, network.ones) = network.IP

\* IPMask.Size: the prefix length
MaskSize(network) == network.ones

-----------------------------------------------------------------------------
(* Host and Inventory *)

EmptyString == <<>>

Host(domain, hostgroup, ipAddress) ==
    [Domain |-> domain, Hostgroup |-> hostgroup, IPAddress |-> ipAddress]

ZeroHost == Host(EmptyString, EmptyString, EmptyString)

\* The inventory of init(): an empty map and an empty list
InitInventory == [ipAddresses |-> <<>>, networkCIDRAddresses |-> <<>>]

\* m[key] = host on a Go map
MapSet(m, key, host) == [k \in (DOMAIN m) \cup {key} |-> IF k = key THEN host ELSE m[k]]

\* Mutant: an unparseable CIDR ends the whole loop instead of skipping one host
RECURSIVE parseInventoryFrom_AbortOnBadCIDR(_, _, _)
parseInventoryFrom_AbortOnBadCIDR(hs, k, inv) ==
    IF k > Len(hs) THEN inv
    ELSE LET host == hs[k] IN
         IF host.Domain = EmptyString /\ host.Hostgroup = EmptyString
         THEN parseInventoryFrom_AbortOnBadCIDR(hs, k + 1, inv)
         ELSE IF ContainsSlash(host.IPAddress)
         THEN LET parsed == ParseCIDR(host.IPAddress) IN
              IF ~parsed.ok
              THEN inv
              ELSE parseInventoryFrom_AbortOnBadCIDR(hs, k + 1,
                     [inv EXCEPT !.networkCIDRAddresses =
                         Append(@, [network |-> parsed.network, host |-> host])])
         ELSE parseInventoryFrom_AbortOnBadCIDR(hs, k + 1,
                [inv EXCEPT !.ipAddresses = MapSet(@, host.IPAddress, host)])

\* The loop of parseInventory over hosts[k..]
RECURSIVE parseInventoryFrom(_, _, _)
parseInventoryFrom(hs, k, inv) ==
    IF k > Len(hs) THEN inv
    ELSE LET host == hs[k] IN
         IF host.Domain = EmptyString /\ host.Hostgroup = EmptyString
         THEN parseInventoryFrom(hs, k + 1, inv)
         ELSE IF ContainsSlash(host.IPAddress)
         THEN LET parsed == ParseCIDR(host.IPAddress) IN
              IF ~parsed.ok
              THEN parseInventoryFrom(hs, k + 1, inv)
              ELSE parseInventoryFrom(hs, k + 1,
                     [inv EXCEPT !.networkCIDRAddresses =
                         Append(@, [network |-> parsed.network, host |-> host])])
         ELSE parseInventoryFrom(hs, k + 1,
                [inv EXCEPT !.ipAddresses = MapSet(@, host.IPAddress, host)])

parseInventory(hs) == parseInventoryFrom(hs, 1, InitInventory)

\* Mutant: the first containing network wins, whatever its prefix length
RECURSIVE longestPrefixFrom_FirstMatch(_, _, _, _, _)
longestPrefixFrom_FirstMatch(nets, k, targetIP, matchedPrefixLen, matchedHost) ==
    IF k > Len(nets)
    THEN [matchedPrefixLen |-> matchedPrefixLen, matchedHost |-> matchedHost]
    ELSE LET currPrefixLen == MaskSize(nets[k].network) IN
         IF Contains(nets[k].network, targetIP) /\ matchedPrefixLen < 0
         THEN longestPrefixFrom_FirstMatch(nets, k + 1, targetIP, currPrefixLen, nets[k].host)
         ELSE longestPrefixFrom_FirstMatch(nets, k + 1, targetIP, matchedPrefixLen, matchedHost)

\* Mutant: a network of the same prefix length replaces the matched one
RECURSIVE longestPrefixFrom_LastWins(_, _, _, _, _)
longestPrefixFrom_LastWins(nets, k, targetIP, matchedPrefixLen, matchedHost) ==
    IF k > Len(nets)
    THEN [matchedPrefixLen |-> matchedPrefixLen, matchedHost |-> matchedHost]
    ELSE LET currPrefixLen == MaskSize(nets[k].network) IN
         IF Contains(nets[k].network, targetIP) /\ currPrefixLen >= matchedPrefixLen
         THEN longestPrefixFrom_LastWins(nets, k + 1, targetIP, currPrefixLen, nets[k].host)
         ELSE longestPrefixFrom_LastWins(nets, k + 1, targetIP, matchedPrefixLen, matchedHost)

\* The loop of GetHost over networkCIDRAddresses[k..]
RECURSIVE longestPrefixFrom(_, _, _, _, _)
longestPrefixFrom(nets, k, targetIP, matchedPrefixLen, matchedHost) ==
    IF k > Len(nets)
    THEN [matchedPrefixLen |-> matchedPrefixLen, matchedHost |-> matchedHost]
    ELSE LET currPrefixLen == MaskSize(nets[k].network) IN
         IF Contains(nets[k].network, targetIP) /\ currPrefixLen > matchedPrefixLen
         THEN longestPrefixFrom(nets, k + 1, targetIP, currPrefixLen, nets[k].host)
         ELSE longestPrefixFrom(nets, k + 1, targetIP, matchedPrefixLen, matchedHost)

\* Mutant: the networks are searched before the exact map
GetHost_CIDRFirst(i, addr) ==
    LET m == longestPrefixFrom(i.networkCIDRAddresses, 1, ParseIP(addr), 0 - 1, ZeroHost) IN
    IF m.matchedPrefixLen >= 0
    THEN [host |-> m.matchedHost, found |-> TRUE]
    ELSE IF addr \in DOMAIN i.ipAddresses
    THEN [host |-> i.ipAddresses[addr], found |-> TRUE]
    ELSE [host |-> ZeroHost, found |-> FALSE]

\* Mutant: a matched prefix length of 0 counts as no match
GetHost_PositiveOnly(i, addr) ==
    IF addr \in DOMAIN i.ipAddresses
    THEN [host |-> i.ipAddresses[addr], found |-> TRUE]
    ELSE LET m == longestPrefixFrom(i.networkCIDRAddresses, 1, ParseIP(addr), 0 - 1, ZeroHost) IN
         IF m.matchedPrefixLen > 0
         THEN [host |-> m.matchedHost, found |-> TRUE]
         ELSE [host |-> ZeroHost, found |-> FALSE]

\* Mutant: matchedPrefixLen starts at 0, so every miss is reported as found
GetHost_StartAtZero(i, addr) ==
    IF addr \in DOMAIN i.ipAddresses
    THEN [host |-> i.ipAddresses[addr], found |-> TRUE]
    ELSE LET m == longestPrefixFrom(i.networkCIDRAddresses, 1, ParseIP(addr), 0, ZeroHost) IN
         IF m.matchedPrefixLen >= 0
         THEN [host |-> m.matchedHost, found |-> TRUE]
         ELSE [host |-> ZeroHost, found |-> FALSE]

GetHost(i, addr) ==
    IF addr \in DOMAIN i.ipAddresses
    THEN [host |-> i.ipAddresses[addr], found |-> TRUE]
    ELSE LET m == longestPrefixFrom(i.networkCIDRAddresses, 1, ParseIP(addr), 0 - 1, ZeroHost) IN
         IF m.matchedPrefixLen >= 0
         THEN [host |-> m.matchedHost, found |-> TRUE]
         ELSE [host |-> ZeroHost, found |-> FALSE]

-----------------------------------------------------------------------------
(* parseHosts: decoding the inventory feed *)

fmtArrayJSON == <<"arrayjson">>
fmtNDJSON == <<"ndjson">>

Nil == "nil"

\* A JSON value of the response body.  kind "object": a well-formed object
\* holding some of the fields domain, hostgroup, ip_address; "unknown": such
\* an object with an unknown field on top; "invalid": text that is no JSON value
Entry(kind, fields) == [kind |-> kind, fields |-> fields]

\* Unmarshal of an object into a Host value: a field the object holds is set,
\* a field it omits keeps what the value had
unmarshal(fields, v) ==
    Host(IF "domain" \in DOMAIN fields THEN fields["domain"] ELSE v.Domain,
         IF "hostgroup" \in DOMAIN fields THEN fields["hostgroup"] ELSE v.Hostgroup,
         IF "ip_address" \in DOMAIN fields THEN fields["ip_address"] ELSE v.IPAddress)

SyntaxError == "invalid character"
UnknownFieldError == "json: unknown field"
ArrayJSONError == "error decoding arrayjson inventory data"
ErrInvalidInventoryFormat == "invalid inventory format"

\* decoder.Decode(&v) with DisallowUnknownFields on the next value of the
\* body: a syntax error leaves v alone; an unknown field is reported after
\* the known fields of the object were stored
Decode(entry, v) ==
    IF entry.kind = "invalid" THEN [err |-> SyntaxError, v |-> v]
    ELSE [err |-> IF entry.kind = "unknown" THEN UnknownFieldError ELSE Nil,
          v |-> unmarshal(entry.fields, v)]

Returned(err, result) == [returns |-> TRUE, err |-> err, result |-> result]

\* The call does not return: the decoder keeps its syntax error and its
\* position, so decoder.More() stays true and every Decode fails again
NeverReturns(result) == [returns |-> FALSE, err |-> SyntaxError, result |-> result]

\* The ndjson loop of parseHosts over data[k..]; inventoryEntry is the one
\* variable every object is decoded into
RECURSIVE parseNDJSONFrom(_, _, _, _)
parseNDJSONFrom(body, k, inventoryEntry, result) ==
    IF k > Len(body) THEN Returned(Nil, result)
    ELSE LET d == Decode(body[k], inventoryEntry) IN
         IF d.err = SyntaxError THEN NeverReturns(result)
         ELSE IF d.err # Nil THEN parseNDJSONFrom(body, k + 1, d.v, result)
         ELSE parseNDJSONFrom(body, k + 1, d.v, Append(result, d.v))

\* decoder.Decode(&result) of the arrayjson case: one array, decoded as a whole
parseArrayJSON(body) ==
    IF \E k \in 1..Len(body) : body[k].kind # "object"
    THEN Returned(ArrayJSONError, <<>>)
    ELSE Returned(Nil, [k \in 1..Len(body) |-> unmarshal(body[k].fields, ZeroHost)])

parseHosts(fmt, body) ==
    IF fmt = fmtNDJSON THEN parseNDJSONFrom(body, 1, ZeroHost, <<>>)
    ELSE IF fmt = fmtArrayJSON THEN parseArrayJSON(body)
    ELSE Returned(ErrInvalidInventoryFormat, <<>>)

NotParsed == Returned(Nil, <<>>)

\* The variables of parseHosts while no feed is decoded
ParseHostsIdle ==
    /\ format = fmtArrayJSON
    /\ data = <<>>
    /\ parseResult = NotParsed

-----------------------------------------------------------------------------
(* The singletons of the two tasks, with their containers on a heap *)

\* A map or slice that was made: its contents, and as history the Collect
\* call that made it (0: init) and the peered socket behind each record
Cell(by, items, from) == [by |-> by, items |-> items, from |-> from]

InitCell == Cell(0, <<>>, <<>>)

\* The containers that the two init() make
InitHeap == <<InitCell, InitCell, InitCell, InitCell, InitCell>>

Unlocked == "unlocked"
Locked == "locked"

\* inventory init(): disabled, with an empty map and an empty list
InitInventoryTask ==
    [enabled |-> FALSE, inventoryAddr |-> EmptyString, inventoryFormat |-> EmptyString,
     mu |-> Unlocked, values |-> [ipAddresses |-> 1, networkCIDRAddresses |-> 2]]

\* socketstat init(): disabled, with three empty lists
InitSocketstatTask ==
    [enabled |-> FALSE, mu |-> Unlocked, serverProcesses |-> 3, upstreams |-> 4, downstreams |-> 5]

NoHeld == [kind |-> "none", refs |-> <<>>, items |-> <<>>]

\* cycle numbers the Collect calls; succeeded is, as history, the number of
\* the last socketstat.Collect that published and returned nil
InitScheduler ==
    [pc |-> "InitTask", startup |-> TRUE, ticks |-> 0, cycle |-> 0, err |-> Nil,
     before |-> NoHeld, pending |-> <<>>, logged |-> <<>>, succeeded |-> 0]

InitReader == [pc |-> "idle", up |-> 0, down |-> 0, held |-> NoHeld]

NoConfig ==
    [inventoryEnabled |-> FALSE, inventoryAddr |-> EmptyString,
     inventoryFormat |-> fmtArrayJSON, socketstatEnabled |-> FALSE]

\* The variables of the service while it is not started
ServiceIdle ==
    /\ config = NoConfig
    /\ inventoryTask = InitInventoryTask
    /\ socketstatTask = InitSocketstatTask
    /\ heap = InitHeap
    /\ scheduler = InitScheduler
    /\ reader = InitReader

-----------------------------------------------------------------------------
(* PlanetCollector: the goroutines of a scrape *)

\* A goroutine of PlanetCollector.Collect that the go statement has not started
NotStarted == [pc |-> "go", err |-> "nil", duration |-> 0, success |-> 0]

\* The variables of the collector while no scrape is modelled
CollectorIdle ==
    /\ Collectors = {}
    /\ collect_pc = "idle"
    /\ wg = 0
    /\ exec = [name \in {} |-> NotStarted]
    /\ ch = EmptyBag

-----------------------------------------------------------------------------
(* Service.collect with its callees as goroutine frames *)

\* The holder of a mutex: a Collect call by task and number, a Get, or nobody
Free == <<>>

Getting == <<"Get", 0>>

\* The goroutine of Service.collect.  todo: the Collect calls it still has to
\* make before it is back at the select; as history: started, the number of
\* calls of Collect per task; done, the tasks whose Collect has returned;
\* firstInventory, how the first inventory.Collect ended
InitLoop ==
    [pc |-> "InitTask", todo |-> <<>>,
     started |-> [inventory |-> 0, darkstat |-> 0, socketstat |-> 0],
     done |-> {}, firstInventory |-> "none"]

\* What init() of the two tasks publishes.  inventory: the number of the
\* inventory.Collect call that made the inventory, 0 for init(); as history:
\* first, whether the lists are those of the first socketstat.Collect call;
\* seen, the inventories that the lookups behind the records were answered by
InitSnapshot == [inventory |-> 0, lists |-> [first |-> FALSE, seen |-> {}]]

InitGetter == [pc |-> "idle"]

\* The variables of the cycles while Service.collect is not modelled
CycleIdle ==
    /\ now = 0
    /\ tickerC = [inventory |-> 0, default |-> 0, dropped |-> FALSE]
    /\ loop = InitLoop
    /\ calls = {}
    /\ snapshot = InitSnapshot
    /\ mutex = [inventory |-> Free, darkstat |-> Free, socketstat |-> Free]
    /\ getter = InitGetter

-----------------------------------------------------------------------------
(* Inputs of the inventory functions *)

BadCIDRString == <<ToString(0), "/", ToString(AddrBits + 1)>>

NotAnIPString == <<"h">>

\* The addresses that inventory hosts are written with: the lowest and the highest
HostIPs == {0, 2^AddrBits - 1}

\* The hosts of a feed: a domain, a hostgroup or neither, and an address that
\* is an IP, a CIDR of any prefix length, or neither
Hosts ==
    { Host(nm[1], nm[2], a) :
        nm \in { <<EmptyString, EmptyString>>, <<(<<"d">>), EmptyString>>,
                 <<EmptyString, (<<"g">>)>> },
        a \in {IPString(n) : n \in HostIPs}
              \cup {CIDRString(n, ones) : n \in HostIPs, ones \in 0..AddrBits}
              \cup {BadCIDRString, NotAnIPString} }

-----------------------------------------------------------------------------
(* Specification InventorySpec: parseInventory, then GetHost *)

NoResult == [host |-> ZeroHost, found |-> FALSE]

InventoryInit ==
    /\ pc = "hosts"
    /\ hosts \in UNION { [1..n -> Hosts] : n \in 0..MaxHosts }
    /\ inventory = InitInventory
    /\ address = EmptyString
    /\ got = NoResult
    /\ values = InitInventory
    /\ serverConnectionStat = [PeeredConnSockets |-> <<>>, ListeningConnSockets |-> <<>>]
    /\ currentIP = EmptyString
    /\ serverProcesses = <<>>
    /\ upstreams = <<>>
    /\ downstreams = <<>>
    /\ inventoryHosts = InitInventory
    /\ upstreamsFrom = <<>>
    /\ downstreamsFrom = <<>>
    /\ ParseHostsIdle
    /\ ServiceIdle
    /\ CollectorIdle
    /\ CycleIdle

ParseInventoryCall ==
    /\ pc = "hosts"
    /\ inventory' = parseInventory(hosts)
    /\ pc' = "inventory"
    /\ UNCHANGED <<hosts, address, got, socketstatVars, parseHostsVars, serviceVars, collectorVars, cycleVars>>

\* GetHost only reads the inventory, so one lookup per behaviour covers every
\* pair of an inventory and an address.
GetHostCall ==
    /\ pc = "inventory"
    /\ \E a \in {IPString(n) : n \in IPs} \cup {NotAnIPString, CIDRString(0, 0)} :
          /\ address' = a
          /\ got' = GetHost(inventory, a)
    /\ pc' = "got"
    /\ UNCHANGED <<hosts, inventory, socketstatVars, parseHostsVars, serviceVars, collectorVars, cycleVars>>

InventoryNext == ParseInventoryCall \/ GetHostCall

InventorySpec == InventoryInit /\ [][InventoryNext]_vars

-----------------------------------------------------------------------------
(* inventory.Collect and inventory.Get *)

Loopback == 1

\* "127.0.0.1"
LoopbackString == IPString(Loopback)

\* "localhost"
Localhost == <<"localhost">>

\* The host that Collect appends to every feed
LocalhostHost == Host(Localhost, Localhost, LoopbackString)

\* Mutant: the localhost host is put in front of the feed
inventoryCollect_LocalhostFirst(feed) == parseInventory(<<LocalhostHost>> \o feed)

\* Collect of the inventory task on a feed that requestHosts returned
inventoryCollect(feed) == parseInventory(Append(feed, LocalhostHost))

-----------------------------------------------------------------------------
(* Specification ParseHostsSpec: parseHosts, and inventory.Collect on a body *)

JSONFields == [domain |-> <<"d">>, hostgroup |-> <<"g">>, ip_address |-> IPString(0)]

\* The well-formed objects: every choice of fields
JSONObjects == { [f \in S |-> JSONFields[f]] : S \in SUBSET (DOMAIN JSONFields) }

\* Objects of a feed that has entries of its own for 127.0.0.1: an exact
\* one, and a network that contains it
LoopbackObjects ==
    { [ip_address |-> LoopbackString, domain |-> <<"d">>],
      [ip_address |-> CIDRString(0, 0), hostgroup |-> <<"g">>] }

Entries ==
    { Entry("object", o) : o \in JSONObjects \cup LoopbackObjects }
    \cup { Entry("unknown", JSONFields), Entry("unknown", [f \in {} |-> EmptyString]) }
    \cup { Entry("invalid", [f \in {} |-> EmptyString]) }

ParseHostsInit ==
    /\ pc = "body"
    /\ format \in {fmtArrayJSON, fmtNDJSON}
    /\ data \in UNION { [1..n -> Entries] : n \in 0..MaxEntries }
    /\ parseResult = NotParsed
    /\ hosts = <<>>
    /\ inventory = InitInventory
    /\ address = EmptyString
    /\ got = NoResult
    /\ values = InitInventory
    /\ serverConnectionStat = [PeeredConnSockets |-> <<>>, ListeningConnSockets |-> <<>>]
    /\ currentIP = EmptyString
    /\ serverProcesses = <<>>
    /\ upstreams = <<>>
    /\ downstreams = <<>>
    /\ inventoryHosts = InitInventory
    /\ upstreamsFrom = <<>>
    /\ downstreamsFrom = <<>>
    /\ ServiceIdle
    /\ CollectorIdle
    /\ CycleIdle

\* A call of parseHosts on the body
ParseHostsCall ==
    /\ pc = "body"
    /\ parseResult' = parseHosts(format, data)
    /\ pc' = IF parseResult'.returns THEN "parsed" ELSE "parsing"
    /\ UNCHANGED <<format, data, inventoryVars, socketstatVars, serviceVars, collectorVars, cycleVars>>

\* inventory.Collect when requestHosts reads the body: the hosts that
\* parseHosts returns are parsed and published; an error publishes nothing
InventoryCollectBody ==
    /\ pc = "body"
    /\ parseResult' = parseHosts(format, data)
    /\ pc' = IF parseResult'.returns THEN "collected" ELSE "collecting"
    /\ values' = IF parseResult'.returns /\ parseResult'.err = Nil
                  THEN inventoryCollect(parseResult'.result)
                  ELSE values
    /\ UNCHANGED <<format, data, inventoryVars, serverConnectionStat, currentIP,
                   serverProcesses, upstreams, downstreams, inventoryHosts,
                   upstreamsFrom, downstreamsFrom, serviceVars, collectorVars, cycleVars>>

ParseHostsNext == ParseHostsCall \/ InventoryCollectBody

ParseHostsSpec == ParseHostsInit /\ [][ParseHostsNext]_vars

-----------------------------------------------------------------------------
(* socketstat.Collect *)

PeeredConnSocket(localPort, remotePort, localIP, remoteIP, protocol, processName) ==
    [LocalPort |-> localPort, RemotePort |-> remotePort, LocalIP |-> localIP,
     RemoteIP |-> remoteIP, Protocol |-> protocol, ProcessName |-> processName]

ListeningConnSocket(localPort, localIP, processName) ==
    [LocalPort |-> localPort, LocalIP |-> localIP, ProcessName |-> processName]

\* fmt.Sprint of a port number
Sprint(port) == <<ToString(port)>>

Process(listeningConn) ==
    [Name |-> listeningConn.ProcessName,
     Bind |-> listeningConn.LocalIP \o <<":">> \o Sprint(listeningConn.LocalPort),
     Port |-> Sprint(listeningConn.LocalPort)]

\* The loop of parseProcessesAndListenPortsConns over ListeningConnSockets[k..]
RECURSIVE listenPortsConnsFrom(_, _, _)
listenPortsConnsFrom(listening, k, listeningPortsConns) ==
    IF k > Len(listening) THEN listeningPortsConns
    ELSE listenPortsConnsFrom(listening, k + 1,
             MapSet(listeningPortsConns, listening[k].LocalPort, listening[k]))

parseProcessesAndListenPortsConns(stat) ==
    [processes |-> [k \in 1..Len(stat.ListeningConnSockets) |-> Process(stat.ListeningConnSockets[k])],
     listeningPortsConns |-> listenPortsConnsFrom(stat.ListeningConnSockets, 1, <<>>)]

\* Mutant: a lookup miss leaves the address empty
getInventoryAddrAndHostgroup_NoFallback(inv, targetIP) ==
    LET r == GetHost(inv, targetIP)
    IN  [addr |-> IF r.found THEN r.host.Domain ELSE EmptyString,
         hostgroup |-> IF r.found THEN r.host.Hostgroup ELSE EmptyString]

getInventoryAddrAndHostgroup(inv, targetIP) ==
    LET r == GetHost(inv, targetIP)
        addr == IF r.found THEN r.host.Domain ELSE EmptyString
        hostgroup == IF r.found THEN r.host.Hostgroup ELSE EmptyString
    IN  [addr |-> IF addr = EmptyString THEN targetIP ELSE addr, hostgroup |-> hostgroup]

\* Mutant: the key does not say whether the connection is a downstream or an upstream
connString_NoDirection(direction, remoteHostgroup, remoteAddr, port, protocol) ==
    remoteHostgroup \o <<"_">> \o remoteAddr \o <<"_">> \o port \o <<"_">> \o protocol

\* fmt.Sprintf("down_%s_%s_%v_%s", ...) and fmt.Sprintf("up_%s_%s_%s_%s", ...)
connString(direction, remoteHostgroup, remoteAddr, port, protocol) ==
    <<direction, "_">> \o remoteHostgroup \o <<"_">> \o remoteAddr \o <<"_">> \o port \o <<"_">> \o protocol

Connections(localHostgroup, localAddr, remoteHostgroup, remoteAddr, port, protocol, processName) ==
    [LocalHostgroup |-> localHostgroup, LocalAddress |-> localAddr,
     RemoteHostgroup |-> remoteHostgroup, RemoteAddress |-> remoteAddr,
     Port |-> port, Protocol |-> protocol, ProcessName |-> processName]

\* Mutant: the loopback address is looked up as it is
localIPOf_NoRewrite(peeredConn, localIP) == peeredConn.LocalIP

\* Replace localhost or 127.0.0.1 with a more useful current address
localIPOf(peeredConn, localIP) ==
    IF peeredConn.LocalIP = LoopbackString THEN localIP ELSE peeredConn.LocalIP

\* Mutant: the listening socket must also be bound to the connection's local address
foundListeningConn_SameAddress(peeredConn, listeningPortsConns) ==
    /\ peeredConn.LocalPort \in DOMAIN listeningPortsConns
    /\ listeningPortsConns[peeredConn.LocalPort].LocalIP = peeredConn.LocalIP

\* Whether peeredConn.LocalPort is one of the listening ports
foundListeningConn(peeredConn, listeningPortsConns) ==
    peeredConn.LocalPort \in DOMAIN listeningPortsConns

\* Mutant: the process name of the socket is kept even when it is empty
downstreamProcessName_Keep(peeredConn, listeningConn) == peeredConn.ProcessName

\* An empty process name is set to the server process listening on that port
downstreamProcessName(peeredConn, listeningConn) ==
    IF peeredConn.ProcessName = EmptyString
    THEN listeningConn.ProcessName ELSE peeredConn.ProcessName

\* Mutant: connections to localhost are upstreams like any other
upstreamIncluded_Always(remoteAddr) == TRUE

\* else if remoteAddr != "localhost"
upstreamIncluded(remoteAddr) == remoteAddr # Localhost

NoConns ==
    [upstreams |-> <<>>, downstreams |-> <<>>, includedConns |-> {},
     upstreamsFrom |-> <<>>, downstreamsFrom |-> <<>>]

\* The loop of Collect over PeeredConnSockets[k..]; c holds upstreams,
\* downstreams and includedConns, and which socket each record came from
RECURSIVE collectFrom(_, _, _, _, _, _)
collectFrom(peered, k, listeningPortsConns, localIP, inv, c) ==
    IF k > Len(peered) THEN c
    ELSE LET peeredConn == peered[k]
             peeredLocalIP == localIPOf(peeredConn, localIP)
             local == getInventoryAddrAndHostgroup(inv, peeredLocalIP)
             remote == getInventoryAddrAndHostgroup(inv, peeredConn.RemoteIP)
         IN
         IF foundListeningConn(peeredConn, listeningPortsConns)
         THEN LET listeningConn == listeningPortsConns[peeredConn.LocalPort]
                  remotePort == Sprint(peeredConn.LocalPort)
                  key == connString("down", remote.hostgroup, remote.addr, remotePort, peeredConn.Protocol)
                  processName == downstreamProcessName(peeredConn, listeningConn)
              IN  IF key \in c.includedConns
                  THEN collectFrom(peered, k + 1, listeningPortsConns, localIP, inv, c)
                  ELSE collectFrom(peered, k + 1, listeningPortsConns, localIP, inv,
                         [c EXCEPT !.includedConns = @ \cup {key},
                                   !.downstreams = Append(@, Connections(local.hostgroup, local.addr,
                                         remote.hostgroup, remote.addr, remotePort,
                                         peeredConn.Protocol, processName)),
                                   !.downstreamsFrom = Append(@, k)])
         ELSE IF upstreamIncluded(remote.addr)
         THEN LET remotePort == Sprint(peeredConn.RemotePort)
                  key == connString("up", remote.hostgroup, remote.addr, remotePort, peeredConn.Protocol)
              IN  IF key \in c.includedConns
                  THEN collectFrom(peered, k + 1, listeningPortsConns, localIP, inv, c)
                  ELSE collectFrom(peered, k + 1, listeningPortsConns, localIP, inv,
                         [c EXCEPT !.includedConns = @ \cup {key},
                                   !.upstreams = Append(@, Connections(local.hostgroup, local.addr,
                                         remote.hostgroup, remote.addr, remotePort,
                                         peeredConn.Protocol, peeredConn.ProcessName)),
                                   !.upstreamsFrom = Append(@, k)])
         ELSE collectFrom(peered, k + 1, listeningPortsConns, localIP, inv, c)

\* What one successful Collect computes from a snapshot, the local IP and the
\* inventory that inventory.Get returns
collect(stat, localIP, inv) ==
    LET parsed == parseProcessesAndListenPortsConns(stat)
        c == collectFrom(stat.PeeredConnSockets, 1, parsed.listeningPortsConns, localIP, inv, NoConns)
    IN  [serverProcesses |-> parsed.processes, upstreams |-> c.upstreams,
         downstreams |-> c.downstreams, upstreamsFrom |-> c.upstreamsFrom,
         downstreamsFrom |-> c.downstreamsFrom]

-----------------------------------------------------------------------------
(* Inputs of the socketstat task *)

TCP == <<"tcp">>
UDP == <<"udp">>

ServicePort == 80
EphemeralPort == 5000

\* The address network.LocalIP finds on this host
LocalIPString == IPString(2)

PeeredConnSockets ==
    { PeeredConnSocket(ServicePort, ServicePort, LocalIPString, IPString(0), TCP, EmptyString),
      PeeredConnSocket(ServicePort, ServicePort, LocalIPString, IPString(0), TCP, <<"p">>),
      PeeredConnSocket(ServicePort, ServicePort, LocalIPString, IPString(3), TCP, <<"p">>),
      PeeredConnSocket(EphemeralPort, ServicePort, LocalIPString, IPString(0), TCP, <<"p">>),
      PeeredConnSocket(EphemeralPort, ServicePort, LocalIPString, IPString(3), TCP, EmptyString),
      PeeredConnSocket(ServicePort, ServicePort, LoopbackString, IPString(0), TCP, <<"p">>),
      PeeredConnSocket(EphemeralPort, ServicePort, LocalIPString, IPString(0), UDP, <<"p">>),
      PeeredConnSocket(EphemeralPort, ServicePort, LocalIPString, LoopbackString, TCP, <<"p">>) }

ListeningConnSockets ==
    { ListeningConnSocket(ServicePort, IPString(0), <<"nginx">>),
      ListeningConnSocket(ServicePort, LoopbackString, <<"envoy">>),
      ListeningConnSocket(EphemeralPort, IPString(0), <<"nginx">>) }

\* Feeds whose hostgroups and domains hold '_', with and without a network
\* around the local IP
SocketHosts ==
    << Host(<<"c">>, <<"a", "_", "b">>, IPString(0)),
       Host(<<"b", "_", "c">>, <<"a">>, IPString(3)),
       Host(EmptyString, <<"self">>, CIDRString(2, 1)) >>

-----------------------------------------------------------------------------
(* Specification SocketstatSpec: inventory.Collect and socketstat.Collect *)

SocketstatInit ==
    /\ pc = "init"
    /\ hosts \in { SocketHosts, SubSeq(SocketHosts, 1, 2) }
    /\ inventory = InitInventory
    /\ address = EmptyString
    /\ got = NoResult
    /\ values = InitInventory
    /\ serverConnectionStat \in
          [PeeredConnSockets : UNION { [1..n -> PeeredConnSockets] : n \in 0..MaxPeered },
           ListeningConnSockets :
               UNION { [1..n -> ListeningConnSockets] : n \in 0..MaxListening }]
    /\ currentIP = LocalIPString
    /\ serverProcesses = <<>>
    /\ upstreams = <<>>
    /\ downstreams = <<>>
    /\ inventoryHosts = InitInventory
    /\ upstreamsFrom = <<>>
    /\ downstreamsFrom = <<>>
    /\ ParseHostsIdle
    /\ ServiceIdle
    /\ CollectorIdle
    /\ CycleIdle

\* A successful inventory.Collect: the feed is parsed and published
InventoryCollect ==
    /\ values' = inventoryCollect(hosts)
    /\ UNCHANGED <<pc, inventoryVars, serverConnectionStat, currentIP, serverProcesses,
                   upstreams, downstreams, inventoryHosts, upstreamsFrom, downstreamsFrom,
                   parseHostsVars, serviceVars, collectorVars, cycleVars>>

\* A successful socketstat.Collect: the snapshot is correlated and published
SocketstatCollect ==
    /\ LET out == collect(serverConnectionStat, currentIP, values)
       IN  /\ serverProcesses' = out.serverProcesses
           /\ upstreams' = out.upstreams
           /\ downstreams' = out.downstreams
           /\ upstreamsFrom' = out.upstreamsFrom
           /\ downstreamsFrom' = out.downstreamsFrom
    /\ inventoryHosts' = values
    /\ pc' = "collected"
    /\ UNCHANGED <<inventoryVars, values, serverConnectionStat, currentIP, parseHostsVars, serviceVars, collectorVars, cycleVars>>

SocketstatNext == InventoryCollect \/ SocketstatCollect

SocketstatSpec == SocketstatInit /\ [][SocketstatNext]_vars

-----------------------------------------------------------------------------
(* Service.collect: the Collect calls of the scheduler, the Get calls of a reader *)

\* Mutant: Lock returns although the mutex is held
mutexFree_Always(mu) == TRUE

\* singleton.mu.Lock() returns when the mutex is not held
mutexFree(mu) == mu = Unlocked

\* The Inventory that a pair of references denotes
InventoryAt(h, v) ==
    [ipAddresses |-> h[v.ipAddresses].items,
     networkCIDRAddresses |-> h[v.networkCIDRAddresses].items]

\* What inventory.Get returns: the references of singleton.values and, as
\* history, what the containers hold at that moment
inventoryGet(h, task) ==
    [kind |-> "inventory",
     refs |-> <<task.values.ipAddresses, task.values.networkCIDRAddresses>>,
     items |-> <<h[task.values.ipAddresses].items, h[task.values.networkCIDRAddresses].items>>]

\* What socketstat.Get returns from the three references it read
socketstatGet(h, procs, up, down) ==
    [kind |-> "socketstat", refs |-> <<procs, up, down>>,
     items |-> <<h[procs].items, h[up].items, h[down].items>>]

InventoryAddressEmpty == "Inventory address is empty"
RequestError == "error requesting inventory"
ServerConnectionsError == "error getting server connections"
LocalIPError == "error getting local IP address"

InventoryResult(returns, publish, err, inv) ==
    [returns |-> returns, publish |-> publish, err |-> err, inventory |-> inv]

\* Mutant: a failed Collect publishes an empty inventory
inventoryCollectResult_ClearOnError(task, response) ==
    IF ~task.enabled THEN InventoryResult(TRUE, FALSE, Nil, InitInventory)
    ELSE IF task.inventoryAddr = EmptyString
    THEN InventoryResult(TRUE, TRUE, InventoryAddressEmpty, InitInventory)
    ELSE IF response.err # Nil THEN InventoryResult(TRUE, TRUE, response.err, InitInventory)
    ELSE LET p == parseHosts(task.inventoryFormat, response.body) IN
         IF ~p.returns THEN InventoryResult(FALSE, FALSE, Nil, InitInventory)
         ELSE IF p.err # Nil THEN InventoryResult(TRUE, TRUE, p.err, InitInventory)
         ELSE InventoryResult(TRUE, TRUE, Nil, inventoryCollect(p.result))

\* Mutant: Collect does not look at singleton.enabled
inventoryCollectResult_IgnoreEnabled(task, response) ==
    IF response.err # Nil THEN InventoryResult(TRUE, FALSE, response.err, InitInventory)
    ELSE LET p == parseHosts(task.inventoryFormat, response.body) IN
         IF ~p.returns THEN InventoryResult(FALSE, FALSE, Nil, InitInventory)
         ELSE IF p.err # Nil THEN InventoryResult(TRUE, FALSE, p.err, InitInventory)
         ELSE InventoryResult(TRUE, TRUE, Nil, inventoryCollect(p.result))

\* inventory.Collect up to the publication: whether it returns, its error,
\* and the inventory it is going to publish
inventoryCollectResult(task, response) ==
    IF ~task.enabled THEN InventoryResult(TRUE, FALSE, Nil, InitInventory)
    ELSE IF task.inventoryAddr = EmptyString
    THEN InventoryResult(TRUE, FALSE, InventoryAddressEmpty, InitInventory)
    ELSE IF response.err # Nil THEN InventoryResult(TRUE, FALSE, response.err, InitInventory)
    ELSE LET p == parseHosts(task.inventoryFormat, response.body) IN
         IF ~p.returns THEN InventoryResult(FALSE, FALSE, Nil, InitInventory)
         ELSE IF p.err # Nil THEN InventoryResult(TRUE, FALSE, p.err, InitInventory)
         ELSE InventoryResult(TRUE, TRUE, Nil, inventoryCollect(p.result))

EmptyStat == [PeeredConnSockets |-> <<>>, ListeningConnSockets |-> <<>>]

SocketstatResult(publish, err, stat, localIP, inv) ==
    [publish |-> publish, err |-> err, stat |-> stat, localIP |-> localIP, inv |-> inv]

\* Mutant: a failed Collect publishes the empty lists it has
socketstatCollectResult_ClearOnError(task, connections, localIP, inv) ==
    IF ~task.enabled THEN SocketstatResult(FALSE, Nil, EmptyStat, EmptyString, inv)
    ELSE IF connections.err # Nil
    THEN SocketstatResult(TRUE, ServerConnectionsError, EmptyStat, EmptyString, inv)
    ELSE IF localIP.err # Nil
    THEN SocketstatResult(TRUE, LocalIPError, EmptyStat, EmptyString, inv)
    ELSE SocketstatResult(TRUE, Nil, connections.stat, localIP.ip, inv)

\* socketstat.Collect up to its loop: its error, and what the loop is going
\* to correlate
socketstatCollectResult(task, connections, localIP, inv) ==
    IF ~task.enabled THEN SocketstatResult(FALSE, Nil, EmptyStat, EmptyString, inv)
    ELSE IF connections.err # Nil
    THEN SocketstatResult(FALSE, ServerConnectionsError, EmptyStat, EmptyString, inv)
    ELSE IF localIP.err # Nil
    THEN SocketstatResult(FALSE, LocalIPError, EmptyStat, EmptyString, inv)
    ELSE SocketstatResult(TRUE, Nil, connections.stat, localIP.ip, inv)

\* The map and the list that parseInventory makes for an inventory
newInventory(h, published, by, inv) ==
    [heap |-> h \o <<Cell(by, inv.ipAddresses, <<>>), Cell(by, inv.networkCIDRAddresses, <<>>)>>,
     refs |-> [ipAddresses |-> Len(h) + 1, networkCIDRAddresses |-> Len(h) + 2]]

\* The sockets behind the records of a list
SocketsBehind(stat, from) == [k \in 1..Len(from) |-> stat.PeeredConnSockets[from[k]]]

\* The three lists of a socketstat.Collect, as cells
ListCells(by, stat, out) ==
    << Cell(by, out.serverProcesses, <<>>),
       Cell(by, out.upstreams, SocketsBehind(stat, out.upstreamsFrom)),
       Cell(by, out.downstreams, SocketsBehind(stat, out.downstreamsFrom)) >>

\* Mutant: Collect refills the lists that are published
newLists_InPlace(h, published, cells) ==
    [heap |-> [h EXCEPT ![published[1]] = cells[1], ![published[2]] = cells[2],
                        ![published[3]] = cells[3]],
     refs |-> published]

\* The lists that socketstat.Collect builds are new ones
newLists(h, published, cells) ==
    [heap |-> h \o cells, refs |-> <<Len(h) + 1, Len(h) + 2, Len(h) + 3>>]

-----------------------------------------------------------------------------
(* Specification ServiceSpec *)

InventoryURL == <<"http://inventory">>

Config(inventoryEnabled, inventoryAddr, socketstatEnabled) ==
    [inventoryEnabled |-> inventoryEnabled, inventoryAddr |-> inventoryAddr,
     inventoryFormat |-> fmtArrayJSON, socketstatEnabled |-> socketstatEnabled]

ServiceConfigs ==
    { Config(TRUE, InventoryURL, TRUE), Config(TRUE, EmptyString, TRUE),
      Config(FALSE, InventoryURL, TRUE), Config(FALSE, EmptyString, FALSE) }

\* The JSON object of a host
EntryOf(host) ==
    Entry("object", [domain |-> host.Domain, hostgroup |-> host.Hostgroup,
                     ip_address |-> host.IPAddress])

BodyOf(hs) == [k \in 1..Len(hs) |-> EntryOf(hs[k])]

\* What requestHosts gets from the HTTP client: an error, or what the
\* inventory endpoint answers, a feed or a feed with an entry that has an
\* unknown field
Responses ==
    { [err |-> RequestError, body |-> <<>>] }
    \cup { [err |-> Nil, body |-> b] :
             b \in { BodyOf(SocketHosts),
                     Append(BodyOf(SocketHosts), Entry("unknown", JSONFields)) } }

ServiceStats ==
    { [PeeredConnSockets |->
          << PeeredConnSocket(ServicePort, ServicePort, LoopbackString, IPString(0), TCP, <<"p">>),
             PeeredConnSocket(EphemeralPort, ServicePort, LocalIPString, IPString(3), TCP, EmptyString) >>,
       ListeningConnSockets |-> << ListeningConnSocket(ServicePort, IPString(0), <<"nginx">>) >>],
      [PeeredConnSockets |->
          << PeeredConnSocket(EphemeralPort, ServicePort, LocalIPString, LoopbackString, TCP, <<"p">>) >>,
       ListeningConnSockets |-> <<>>] }

\* What network.ServerConnections returns: an error (also on timeout) or a snapshot
ServerConnectionsResults ==
    { [err |-> ServerConnectionsError, stat |-> EmptyStat] }
    \cup { [err |-> Nil, stat |-> st] : st \in ServiceStats }

\* What network.LocalIP returns
LocalIPResults ==
    { [err |-> LocalIPError, ip |-> EmptyString], [err |-> Nil, ip |-> LocalIPString] }

ServiceInit ==
    /\ pc = "service"
    /\ hosts = <<>>
    /\ inventory = InitInventory
    /\ address = EmptyString
    /\ got = NoResult
    /\ values = InitInventory
    /\ serverConnectionStat = EmptyStat
    /\ currentIP = EmptyString
    /\ serverProcesses = <<>>
    /\ upstreams = <<>>
    /\ downstreams = <<>>
    /\ inventoryHosts = InitInventory
    /\ upstreamsFrom = <<>>
    /\ downstreamsFrom = <<>>
    /\ ParseHostsIdle
    /\ config \in ServiceConfigs
    /\ inventoryTask = InitInventoryTask
    /\ socketstatTask = InitSocketstatTask
    /\ heap = InitHeap
    /\ scheduler = InitScheduler
    /\ reader = InitReader
    /\ CollectorIdle
    /\ CycleIdle

harnessVars == <<pc, inventoryVars, socketstatVars, parseHostsVars, collectorVars, cycleVars>>

\* Collect has built new containers and goes on to publish them
ToPublish(called, at, err, new) ==
    /\ scheduler' = [called EXCEPT !.pc = at, !.err = err, !.pending = new.refs]
    /\ heap' = new.heap

\* Collect returns without publishing
ToReturn(called, at, err) ==
    /\ scheduler' = [called EXCEPT !.pc = at, !.err = err]
    /\ heap' = heap

\* The InitTask calls at the start of Service.collect
InitTasks ==
    /\ scheduler.pc = "InitTask"
    /\ inventoryTask' = [inventoryTask EXCEPT !.enabled = config.inventoryEnabled,
                                               !.inventoryAddr = config.inventoryAddr,
                                               !.inventoryFormat = config.inventoryFormat]
    /\ socketstatTask' = [socketstatTask EXCEPT !.enabled = config.socketstatEnabled]
    /\ scheduler' = [scheduler EXCEPT !.pc = "fInventory"]
    /\ UNCHANGED <<harnessVars, config, heap, reader>>

\* inventory.Collect, up to its return or to the mutex
InventoryCollectCall ==
    /\ scheduler.pc = "fInventory"
    /\ \E response \in Responses :
          LET r == inventoryCollectResult(inventoryTask, response)
              by == scheduler.cycle + 1
              called == [scheduler EXCEPT !.cycle = by,
                                          !.before = inventoryGet(heap, inventoryTask)]
          IN  IF ~r.returns
              THEN ToReturn(called, "parseHosts", Nil)
              ELSE IF r.publish
              THEN ToPublish(called, "inventory.Lock", r.err,
                             newInventory(heap, inventoryTask.values, by, r.inventory))
              ELSE ToReturn(called, "fInventory.returned", r.err)
    /\ UNCHANGED <<harnessVars, config, inventoryTask, socketstatTask, reader>>

\* singleton.mu.Lock(); singleton.values = inventory; singleton.mu.Unlock()
InventoryPublish ==
    /\ scheduler.pc = "inventory.Lock"
    /\ mutexFree(inventoryTask.mu)
    /\ inventoryTask' = [inventoryTask EXCEPT !.values = scheduler.pending]
    /\ scheduler' = [scheduler EXCEPT !.pc = "fInventory.returned", !.pending = <<>>]
    /\ UNCHANGED <<harnessVars, config, socketstatTask, heap, reader>>

Logged(errors, text, err) == IF err = Nil THEN errors ELSE Append(errors, <<text, err>>)

\* fInventory after Collect returned: the error is logged
FInventoryReturn ==
    /\ scheduler.pc = "fInventory.returned"
    /\ scheduler' = [scheduler EXCEPT
                        !.pc = IF scheduler.startup THEN "fDefault" ELSE "select",
                        !.logged = Logged(@, "Inventory collect failed", scheduler.err),
                        !.err = Nil, !.before = NoHeld]
    /\ UNCHANGED <<harnessVars, config, inventoryTask, socketstatTask, heap, reader>>

\* socketstat.Collect, up to its return or to the mutex
SocketstatCollectCall ==
    /\ scheduler.pc = "fDefault"
    /\ \E connections \in ServerConnectionsResults, localIP \in LocalIPResults :
          LET r == socketstatCollectResult(socketstatTask, connections, localIP,
                                           InventoryAt(heap, inventoryTask.values))
              by == scheduler.cycle + 1
              published == <<socketstatTask.serverProcesses, socketstatTask.upstreams,
                             socketstatTask.downstreams>>
              called == [scheduler EXCEPT
                            !.cycle = by,
                            !.before = socketstatGet(heap, published[1], published[2], published[3])]
          IN  IF r.publish
              THEN ToPublish(called, "socketstat.Lock", r.err,
                             newLists(heap, published,
                                      ListCells(by, r.stat, collect(r.stat, r.localIP, r.inv))))
              ELSE ToReturn(called, "fDefault.returned", r.err)
    /\ UNCHANGED <<harnessVars, config, inventoryTask, socketstatTask, reader>>

\* singleton.mu.Lock(); singleton.serverProcesses = serverProcesses
SocketstatPublishServerProcesses ==
    /\ scheduler.pc = "socketstat.Lock"
    /\ mutexFree(socketstatTask.mu)
    /\ socketstatTask' = [socketstatTask EXCEPT !.mu = Locked,
                                                 !.serverProcesses = scheduler.pending[1]]
    /\ scheduler' = [scheduler EXCEPT !.pc = "socketstat.upstreams"]
    /\ UNCHANGED <<harnessVars, config, inventoryTask, heap, reader>>

\* singleton.upstreams = upstreams
SocketstatPublishUpstreams ==
    /\ scheduler.pc = "socketstat.upstreams"
    /\ socketstatTask' = [socketstatTask EXCEPT !.upstreams = scheduler.pending[2]]
    /\ scheduler' = [scheduler EXCEPT !.pc = "socketstat.downstreams"]
    /\ UNCHANGED <<harnessVars, config, inventoryTask, heap, reader>>

\* singleton.downstreams = downstreams; singleton.mu.Unlock()
SocketstatPublishDownstreams ==
    /\ scheduler.pc = "socketstat.downstreams"
    /\ socketstatTask' = [socketstatTask EXCEPT !.mu = Unlocked,
                                                 !.downstreams = scheduler.pending[3]]
    /\ scheduler' = [scheduler EXCEPT !.pc = "fDefault.returned", !.pending = <<>>,
                                      !.succeeded = IF scheduler.err = Nil
                                                    THEN scheduler.cycle ELSE @]
    /\ UNCHANGED <<harnessVars, config, inventoryTask, heap, reader>>

\* fDefault after socketstat.Collect returned: the error is logged
FDefaultReturn ==
    /\ scheduler.pc = "fDefault.returned"
    /\ scheduler' = [scheduler EXCEPT
                        !.pc = "select", !.startup = FALSE,
                        !.logged = Logged(@, "Socketstat collect failed", scheduler.err),
                        !.err = Nil, !.before = NoHeld]
    /\ UNCHANGED <<harnessVars, config, inventoryTask, socketstatTask, heap, reader>>

\* case <-inventoryTicker.C
TickInventory ==
    /\ scheduler.pc = "select"
    /\ scheduler.ticks < MaxTicks
    /\ scheduler' = [scheduler EXCEPT !.pc = "fInventory", !.ticks = @ + 1]
    /\ UNCHANGED <<harnessVars, config, inventoryTask, socketstatTask, heap, reader>>

\* case <-defaultTicker.C
TickDefault ==
    /\ scheduler.pc = "select"
    /\ scheduler.ticks < MaxTicks
    /\ scheduler' = [scheduler EXCEPT !.pc = "fDefault", !.ticks = @ + 1]
    /\ UNCHANGED <<harnessVars, config, inventoryTask, socketstatTask, heap, reader>>

\* socketstat.Get: singleton.mu.Lock(); up := singleton.upstreams
GetUpstreams ==
    /\ reader.pc = "idle"
    /\ mutexFree(socketstatTask.mu)
    /\ socketstatTask' = [socketstatTask EXCEPT !.mu = Locked]
    /\ reader' = [reader EXCEPT !.pc = "Get.downstreams", !.up = socketstatTask.upstreams]
    /\ UNCHANGED <<harnessVars, config, inventoryTask, heap, scheduler>>

\* socketstat.Get: down := singleton.downstreams
GetDownstreams ==
    /\ reader.pc = "Get.downstreams"
    /\ reader' = [reader EXCEPT !.pc = "Get.serverProcesses", !.down = socketstatTask.downstreams]
    /\ UNCHANGED <<harnessVars, config, inventoryTask, socketstatTask, heap, scheduler>>

\* socketstat.Get: serverProcesses := singleton.serverProcesses;
\* singleton.mu.Unlock(); return serverProcesses, up, down
GetServerProcesses ==
    /\ reader.pc = "Get.serverProcesses"
    /\ socketstatTask' = [socketstatTask EXCEPT !.mu = Unlocked]
    /\ reader' = [reader EXCEPT
                     !.pc = "idle", !.up = 0, !.down = 0,
                     !.held = socketstatGet(heap, socketstatTask.serverProcesses,
                                            reader.up, reader.down)]
    /\ UNCHANGED <<harnessVars, config, inventoryTask, heap, scheduler>>

\* inventory.Get
InventoryGet ==
    /\ reader.pc = "idle"
    /\ mutexFree(inventoryTask.mu)
    /\ reader' = [reader EXCEPT !.held = inventoryGet(heap, inventoryTask)]
    /\ UNCHANGED <<harnessVars, config, inventoryTask, socketstatTask, heap, scheduler>>

ServiceNext ==
    \/ InitTasks
    \/ InventoryCollectCall
    \/ InventoryPublish
    \/ FInventoryReturn
    \/ SocketstatCollectCall
    \/ SocketstatPublishServerProcesses
    \/ SocketstatPublishUpstreams
    \/ SocketstatPublishDownstreams
    \/ FDefaultReturn
    \/ TickInventory
    \/ TickDefault
    \/ GetUpstreams
    \/ GetDownstreams
    \/ GetServerProcesses
    \/ InventoryGet

ServiceSpec == ServiceInit /\ [][ServiceNext]_vars

-----------------------------------------------------------------------------
(* Specification CollectorSpec: PlanetCollector.Collect and collectorExec *)

ErrNoData == "A collector did not find any data"

\* Any other error of an Update
ErrUpdate == "collector failed"

scrapeDurationDesc == "planet_scrape_collector_duration_seconds"

scrapeSuccessDesc == "planet_scrape_collector_success"

\* prometheus.MustNewConstMetric(desc, prometheus.GaugeValue, value, name)
Metric(desc, value, name) == [desc |-> desc, value |-> value, collector |-> name]

\* ch <- metric
Send(c, metric) == c (+) SetToBag({metric})

\* Mutant: success is reported whatever Update returned
successOf_Always(err) == 1

\* The success value that collectorExec sets from the error of Update
successOf(err) == IF err # Nil THEN 0 ELSE 1

\* Mutant: the WaitGroup counts one goroutine
wgAdd_One(collectors) == IF collectors = {} THEN 0 ELSE 1

\* wg.Add(len(p.Collectors))
wgAdd(collectors) == Cardinality(collectors)

CollectorNames == { ToString(n) : n \in 1..MaxCollectors }

\* The metrics of its own that an Update sends before it returns
UpdateMetrics(name) == { EmptyBag, SetToBag({Metric("planet_upstream", 1, name)}) }

CollectorInit ==
    /\ pc = "scrape"
    /\ hosts = <<>>
    /\ inventory = InitInventory
    /\ address = EmptyString
    /\ got = NoResult
    /\ values = InitInventory
    /\ serverConnectionStat = [PeeredConnSockets |-> <<>>, ListeningConnSockets |-> <<>>]
    /\ currentIP = EmptyString
    /\ serverProcesses = <<>>
    /\ upstreams = <<>>
    /\ downstreams = <<>>
    /\ inventoryHosts = InitInventory
    /\ upstreamsFrom = <<>>
    /\ downstreamsFrom = <<>>
    /\ ParseHostsIdle
    /\ ServiceIdle
    /\ CycleIdle
    /\ Collectors \in SUBSET CollectorNames
    /\ collect_pc = "wg.Add"
    /\ wg = 0
    /\ exec = [name \in Collectors |-> NotStarted]
    /\ ch = EmptyBag

restVars == <<pc, inventoryVars, socketstatVars, parseHostsVars, serviceVars, cycleVars>>

\* wg.Add(len(p.Collectors))
WgAdd ==
    /\ collect_pc = "wg.Add"
    /\ wg' = wg + wgAdd(Collectors)
    /\ collect_pc' = "range"
    /\ UNCHANGED <<restVars, Collectors, exec, ch>>

\* One pass of the loop over p.Collectors: the go statement for a collector
Go(name) ==
    /\ collect_pc = "range"
    /\ exec[name].pc = "go"
    /\ exec' = [exec EXCEPT ![name].pc = "Update"]
    /\ UNCHANGED <<restVars, Collectors, collect_pc, wg, ch>>

\* The loop over p.Collectors is done
RangeDone ==
    /\ collect_pc = "range"
    /\ \A name \in Collectors : exec[name].pc # "go"
    /\ collect_pc' = "wg.Wait"
    /\ UNCHANGED <<restVars, Collectors, wg, exec, ch>>

\* collectorExec: err := c.Update(ch); duration := time.Since(start); success
Update(name) ==
    /\ exec[name].pc = "Update"
    /\ \E err \in {Nil, ErrNoData, ErrUpdate}, duration \in {0, 1},
          sent \in UpdateMetrics(name) :
          /\ exec' = [exec EXCEPT ![name] = [pc |-> "ch <- duration", err |-> err,
                                             duration |-> duration,
                                             success |-> successOf(err)]]
          /\ ch' = ch (+) sent
    /\ UNCHANGED <<restVars, Collectors, collect_pc, wg>>

\* collectorExec: ch <- MustNewConstMetric(scrapeDurationDesc, ...)
SendDuration(name) ==
    /\ exec[name].pc = "ch <- duration"
    /\ ch' = Send(ch, Metric(scrapeDurationDesc, exec[name].duration, name))
    /\ exec' = [exec EXCEPT ![name].pc = "ch <- success"]
    /\ UNCHANGED <<restVars, Collectors, collect_pc, wg>>

\* collectorExec: ch <- MustNewConstMetric(scrapeSuccessDesc, ...)
SendSuccess(name) ==
    /\ exec[name].pc = "ch <- success"
    /\ ch' = Send(ch, Metric(scrapeSuccessDesc, exec[name].success, name))
    /\ exec' = [exec EXCEPT ![name].pc = "wg.Done"]
    /\ UNCHANGED <<restVars, Collectors, collect_pc, wg>>

\* wg.Done(), and the goroutine ends
WgDone(name) ==
    /\ exec[name].pc = "wg.Done"
    /\ wg' = wg - 1
    /\ exec' = [exec EXCEPT ![name].pc = "exited"]
    /\ UNCHANGED <<restVars, Collectors, collect_pc, ch>>

\* wg.Wait() returns, and Collect with it
WgWait ==
    /\ collect_pc = "wg.Wait"
    /\ wg = 0
    /\ collect_pc' = "returned"
    /\ UNCHANGED <<restVars, Collectors, wg, exec, ch>>

CollectorNext ==
    \/ WgAdd
    \/ \E name \in Collectors : Go(name)
    \/ RangeDone
    \/ \E name \in Collectors : Update(name)
    \/ \E name \in Collectors : SendDuration(name)
    \/ \E name \in Collectors : SendSuccess(name)
    \/ \E name \in Collectors : WgDone(name)
    \/ WgWait

CollectorSpec == CollectorInit /\ [][CollectorNext]_vars

-----------------------------------------------------------------------------
(* Specification CycleSpec: the tickers, Service.collect, the Collect calls *)

\* inventoryTicker := time.NewTicker(interval * 25)
InventoryTickerFactor == 25

\* fInventory and fDefault: the Collect calls they make, in order
fInventory == <<"inventory">>

fDefault == <<"darkstat", "socketstat">>

\* Mutant: fDefault is triggered before fInventory
triggerOnce_DefaultFirst == fDefault \o fInventory

\* Trigger once: fInventory(); fDefault()
triggerOnce == fInventory \o fDefault

\* Mutant: the closure is started with a go statement
pcAfterCall_Go == "run"

\* Where Service.collect is after it has called a Collect: waiting for it
pcAfterCall == "wait"

inventorySteps == <<"requestHosts", "mu.Lock", "singleton.values = inventory">>

darkstatSteps == <<"prometheus.Scrape", "mu.Lock", "singleton.hosts = hosts">>

\* Mutant: socketstat.Collect locks the mutex when it starts
socketstatSteps_LockFirst ==
    <<"mu.Lock", "ServerConnections", "getInventoryAddrAndHostgroup",
      "singleton.upstreams = upstreams">>

\* The phases of socketstat.Collect: enumeration, the lookups of the loop,
\* then the mutex and the assignments
socketstatSteps ==
    <<"ServerConnections", "getInventoryAddrAndHostgroup", "mu.Lock",
      "singleton.upstreams = upstreams">>

stepsOf(task) ==
    CASE task = "inventory" -> inventorySteps
      [] task = "darkstat" -> darkstatSteps
      [] task = "socketstat" -> socketstatSteps

\* The phase that follows a phase of a Collect
after(task, label) ==
    LET steps == stepsOf(task)
    IN  steps[1 + CHOOSE k \in 1..Len(steps) : steps[k] = label]

\* The frame of a Collect call.  n: its number among the calls of its task;
\* lookups: how many lookups its loop has made; as history: seen, the
\* inventories that the lookups were answered by
Call(task, n) ==
    [task |-> task, n |-> n, pc |-> stepsOf(task)[1], lookups |-> 0, seen |-> {}]

IdOf(c) == <<c.task, c.n>>

\* The mutex of a task without the Collect call c as holder
Released(c) == IF mutex[c.task] = IdOf(c) THEN [mutex EXCEPT ![c.task] = Free] ELSE mutex

\* Service.collect when the Collect call c returns
Resumed(c, ok) ==
    [loop EXCEPT !.pc = IF @ = "wait" THEN "run" ELSE @,
                 !.done = @ \cup {c.task},
                 !.firstInventory = IF c.task = "inventory" /\ c.n = 1
                                     THEN (IF ok THEN "ok" ELSE "failed") ELSE @]

CycleInit ==
    /\ pc = "cycles"
    /\ hosts = <<>>
    /\ inventory = InitInventory
    /\ address = EmptyString
    /\ got = NoResult
    /\ values = InitInventory
    /\ serverConnectionStat = [PeeredConnSockets |-> <<>>, ListeningConnSockets |-> <<>>]
    /\ currentIP = EmptyString
    /\ serverProcesses = <<>>
    /\ upstreams = <<>>
    /\ downstreams = <<>>
    /\ inventoryHosts = InitInventory
    /\ upstreamsFrom = <<>>
    /\ downstreamsFrom = <<>>
    /\ ParseHostsIdle
    /\ ServiceIdle
    /\ CollectorIdle
    /\ now = 0
    /\ tickerC = [inventory |-> 0, default |-> 0, dropped |-> FALSE]
    /\ loop = InitLoop
    /\ calls = {}
    /\ snapshot = InitSnapshot
    /\ mutex = [inventory |-> Free, darkstat |-> Free, socketstat |-> Free]
    /\ getter = InitGetter

otherVars == <<pc, inventoryVars, socketstatVars, parseHostsVars, serviceVars, collectorVars>>

\* A base interval passes: defaultTicker sends a tick, inventoryTicker every
\* 25th time; a tick that finds the channel full is dropped.  dropped: as
\* history, whether defaultTicker dropped a tick since the last receive
TickerFire ==
    /\ now < MaxClock
    /\ now' = now + 1
    /\ tickerC' = [inventory |-> IF now' % InventoryTickerFactor = 0 THEN 1
                                  ELSE tickerC.inventory,
                   default |-> 1,
                   dropped |-> tickerC.dropped \/ tickerC.default = 1]
    /\ UNCHANGED <<otherVars, loop, calls, snapshot, mutex, getter>>

\* The InitTask calls, then "Trigger once"
LoopInitTask ==
    /\ loop.pc = "InitTask"
    /\ loop' = [loop EXCEPT !.pc = "run", !.todo = triggerOnce]
    /\ UNCHANGED <<otherVars, now, tickerC, calls, snapshot, mutex, getter>>

\* The next Collect call of the closure that is running
LoopCall ==
    /\ loop.pc = "run"
    /\ loop.todo # <<>>
    /\ LET task == Head(loop.todo)
           n == loop.started[task] + 1
       IN  /\ calls' = calls \cup {Call(task, n)}
           /\ loop' = [loop EXCEPT !.pc = pcAfterCall, !.todo = Tail(@),
                                   !.started[task] = n]
    /\ UNCHANGED <<otherVars, now, tickerC, snapshot, mutex, getter>>

\* case <-inventoryTicker.C: fInventory()
LoopSelectInventory ==
    /\ loop.pc = "run"
    /\ loop.todo = <<>>
    /\ tickerC.inventory = 1
    /\ tickerC' = [tickerC EXCEPT !.inventory = 0]
    /\ loop' = [loop EXCEPT !.todo = fInventory]
    /\ UNCHANGED <<otherVars, now, calls, snapshot, mutex, getter>>

\* case <-defaultTicker.C: fDefault()
LoopSelectDefault ==
    /\ loop.pc = "run"
    /\ loop.todo = <<>>
    /\ tickerC.default = 1
    /\ tickerC' = [tickerC EXCEPT !.default = 0, !.dropped = FALSE]
    /\ loop' = [loop EXCEPT !.todo = fDefault]
    /\ UNCHANGED <<otherVars, now, calls, snapshot, mutex, getter>>

\* A Collect call goes on to its next phase
Proceed(c, next) == calls' = (calls \ {c}) \cup {next}

\* A Collect call returns
Return(c, ok) ==
    /\ calls' = calls \ {c}
    /\ loop' = Resumed(c, ok)
    /\ mutex' = Released(c)

\* inventory.Collect: requestHosts returns hosts, or an error that Collect returns
RequestHosts(c) ==
    /\ c.pc = "requestHosts"
    /\ c.task = "inventory"
    /\ \/ /\ Proceed(c, [c EXCEPT !.pc = after(c.task, "requestHosts")])
          /\ UNCHANGED <<loop, mutex>>
       \/ Return(c, FALSE)
    /\ UNCHANGED <<otherVars, now, tickerC, snapshot, getter>>

\* singleton.mu.Lock() of a Collect
CollectLock(c) ==
    /\ c.pc = "mu.Lock"
    /\ mutex[c.task] = Free
    /\ mutex' = [mutex EXCEPT ![c.task] = IdOf(c)]
    /\ Proceed(c, [c EXCEPT !.pc = after(c.task, "mu.Lock")])
    /\ UNCHANGED <<otherVars, now, tickerC, loop, snapshot, getter>>

\* inventory.Collect: singleton.values = inventory; mu.Unlock(); return nil
InventoryAssign(c) ==
    /\ c.pc = "singleton.values = inventory"
    /\ mutex[c.task] = IdOf(c)
    /\ snapshot' = [snapshot EXCEPT !.inventory = c.n]
    /\ Return(c, TRUE)
    /\ UNCHANGED <<otherVars, now, tickerC, getter>>

\* darkstat.Collect: the scrape returns metrics, or an error that Collect returns
DarkstatScrape(c) ==
    /\ c.pc = "prometheus.Scrape"
    /\ \/ /\ Proceed(c, [c EXCEPT !.pc = after(c.task, "prometheus.Scrape")])
          /\ UNCHANGED <<loop, mutex>>
       \/ Return(c, FALSE)
    /\ UNCHANGED <<otherVars, now, tickerC, snapshot, getter>>

\* darkstat.Collect: singleton.hosts = hosts; mu.Unlock(); return nil
DarkstatAssign(c) ==
    /\ c.pc = "singleton.hosts = hosts"
    /\ mutex[c.task] = IdOf(c)
    /\ Return(c, TRUE)
    /\ UNCHANGED <<otherVars, now, tickerC, snapshot, getter>>

\* socketstat.Collect: network.ServerConnections and network.LocalIP return,
\* or one of them fails and Collect returns the error
ServerConnections(c) ==
    /\ c.pc = "ServerConnections"
    /\ \/ /\ Proceed(c, [c EXCEPT !.pc = after(c.task, "ServerConnections")])
          /\ UNCHANGED <<loop, mutex>>
       \/ Return(c, FALSE)
    /\ UNCHANGED <<otherVars, now, tickerC, snapshot, getter>>

\* socketstat.Collect: one getInventoryAddrAndHostgroup of the loop, which
\* calls inventory.Get(); after the last one the loop is done
Lookup(c) ==
    /\ c.pc = "getInventoryAddrAndHostgroup"
    /\ mutex.inventory = Free
    /\ LET looked == [c EXCEPT !.lookups = @ + 1, !.seen = @ \cup {snapshot.inventory}]
       IN  Proceed(c, IF looked.lookups = MaxLookups
                      THEN [looked EXCEPT !.pc = after(c.task, "getInventoryAddrAndHostgroup")]
                      ELSE looked)
    /\ UNCHANGED <<otherVars, now, tickerC, loop, snapshot, mutex, getter>>

\* socketstat.Collect: the three assignments; mu.Unlock(); return nil
SocketstatAssign(c) ==
    /\ c.pc = "singleton.upstreams = upstreams"
    /\ mutex[c.task] = IdOf(c)
    /\ snapshot' = [snapshot EXCEPT !.lists = [first |-> c.n = 1, seen |-> c.seen]]
    /\ Return(c, TRUE)
    /\ UNCHANGED <<otherVars, now, tickerC, getter>>

\* A goroutine calls socketstat.Get
GetCall ==
    /\ getter.pc = "idle"
    /\ getter' = [getter EXCEPT !.pc = "mu.Lock"]
    /\ UNCHANGED <<otherVars, now, tickerC, loop, calls, snapshot, mutex>>

\* socketstat.Get: singleton.mu.Lock()
GetLock ==
    /\ getter.pc = "mu.Lock"
    /\ mutex.socketstat = Free
    /\ mutex' = [mutex EXCEPT !.socketstat = Getting]
    /\ getter' = [getter EXCEPT !.pc = "up := singleton.upstreams"]
    /\ UNCHANGED <<otherVars, now, tickerC, loop, calls, snapshot>>

\* socketstat.Get: the three copies; mu.Unlock(); return
GetCopy ==
    /\ getter.pc = "up := singleton.upstreams"
    /\ mutex' = [mutex EXCEPT !.socketstat = Free]
    /\ getter' = [getter EXCEPT !.pc = "idle"]
    /\ UNCHANGED <<otherVars, now, tickerC, loop, calls, snapshot>>

CycleNext ==
    \/ TickerFire
    \/ LoopInitTask
    \/ LoopCall
    \/ LoopSelectInventory
    \/ LoopSelectDefault
    \/ \E c \in calls : RequestHosts(c)
    \/ \E c \in calls : CollectLock(c)
    \/ \E c \in calls : InventoryAssign(c)
    \/ \E c \in calls : DarkstatScrape(c)
    \/ \E c \in calls : DarkstatAssign(c)
    \/ \E c \in calls : ServerConnections(c)
    \/ \E c \in calls : Lookup(c)
    \/ \E c \in calls : SocketstatAssign(c)
    \/ GetCall
    \/ GetLock
    \/ GetCopy

CycleSpec == CycleInit /\ [][CycleNext]_vars

-----------------------------------------------------------------------------
(* Properties of Inventory.GetHost and parseInventory (InventorySpec) *)

Nets == inventory.networkCIDRAddresses

\* The entries of the CIDR list whose network contains the looked-up address
Containing == { k \in 1..Len(Nets) : Contains(Nets[k].network, ParseIP(address)) }

ExactHit == address \in DOMAIN inventory.ipAddresses

\* hs in the order given by the permutation p of its indices
Permuted(hs, p) == [k \in 1..Len(hs) |-> hs[p[k]]]

\* C1: an address that is a key of the exact map resolves to the Host stored
\* under that key, found, whatever CIDR entries also contain the address.
C1_ExactMatchWins ==
    (pc = "got" /\ ExactHit) =>
        got = [host |-> inventory.ipAddresses[address], found |-> TRUE]

C1_Witness ==
    /\ pc = "got"
    /\ ExactHit
    /\ Containing # {}
    /\ got.found
    /\ got.host = inventory.ipAddresses[address]
    /\ \A k \in Containing : Nets[k].host # got.host

\* C2: without an exact entry, when one containing network has a strictly
\* longer prefix than every other containing network, its Host is returned,
\* and the same Host is returned for every order of the host list.
C2_LongestPrefixWins ==
    (pc = "got" /\ ~ExactHit) =>
        \A k \in Containing :
            (\A j \in Containing \ {k} : MaskSize(Nets[j].network) < MaskSize(Nets[k].network))
            => /\ got = [host |-> Nets[k].host, found |-> TRUE]
               /\ \A p \in Permutations(1..Len(hosts)) :
                     GetHost(parseInventory(Permuted(hosts, p)), address) = got

C2_Witness ==
    /\ pc = "got"
    /\ ~ExactHit
    /\ \E k, j \in Containing :
          /\ k < j
          /\ MaskSize(Nets[j].network) < MaskSize(Nets[k].network)
          /\ got.host = Nets[k].host
          /\ Nets[j].host # Nets[k].host

C4_FoundIffMatch ==
    (pc = "got") =>
        /\ got.found <=> (ExactHit \/ Containing # {})
        /\ ~got.found => got.host = ZeroHost

C4_Witness ==
    /\ pc = "got"
    /\ ~got.found
    /\ got.host = ZeroHost
    /\ ParseIP(address) # NoIP
    /\ Len(Nets) > 0
    /\ DOMAIN inventory.ipAddresses # {}

\* The containing entries that no containing entry beats in prefix length
Longest ==
    { k \in Containing :
         \A j \in Containing : MaskSize(Nets[j].network) <= MaskSize(Nets[k].network) }

\* The hosts of the list given to parseInventory that Longest comes from
LongestHosts ==
    { m \in 1..Len(hosts) :
         /\ hosts[m].Domain # EmptyString \/ hosts[m].Hostgroup # EmptyString
         /\ ContainsSlash(hosts[m].IPAddress)
         /\ ParseCIDR(hosts[m].IPAddress).ok
         /\ \E k \in Longest : Nets[k].network = ParseCIDR(hosts[m].IPAddress).network }

\* C25: without an exact entry, when two or more containing CIDR entries share
\* the longest prefix length among the containing entries, the Host returned is
\* that of the first of them in the CIDR list, which is the first of them in
\* the host list given to parseInventory.
C25_FirstOfEqualPrefixWins ==
    (pc = "got" /\ ~ExactHit /\ Cardinality(Longest) >= 2) =>
        /\ got = [host |-> Nets[CHOOSE k \in Longest : \A j \in Longest : k <= j].host,
                  found |-> TRUE]
        /\ got.host = hosts[CHOOSE m \in LongestHosts : \A j \in LongestHosts : m <= j]

\* Two entries of the same network with different hosts, the first returned
C25_Witness ==
    /\ pc = "got"
    /\ ~ExactHit
    /\ Longest = {1, 2}
    /\ Nets[1].host # Nets[2].host
    /\ got = [host |-> Nets[1].host, found |-> TRUE]
    /\ got.host = hosts[1]

Known(h) == h.Domain # EmptyString \/ h.Hostgroup # EmptyString

IsExactHost(h) == Known(h) /\ ~ContainsSlash(h.IPAddress)

IsCIDRHost(h) == Known(h) /\ ContainsSlash(h.IPAddress) /\ ParseCIDR(h.IPAddress).ok

\* C5: parseInventory returns, for every host list, the store whose exact map
\* has as keys the addresses of the known hosts without '/', each bound to the
\* last such host of the list, and whose CIDR list is the known hosts with a
\* parseable network, in input order; every other host is left out.
C5_ParseInventoryTotal ==
    (pc # "hosts") =>
        /\ DOMAIN inventory.ipAddresses = { hosts[k].IPAddress : k \in { m \in 1..Len(hosts) : IsExactHost(hosts[m]) } }
        /\ \A k \in 1..Len(hosts) :
              IsExactHost(hosts[k]) =>
                 \/ inventory.ipAddresses[hosts[k].IPAddress] = hosts[k]
                 \/ \E m \in (k+1)..Len(hosts) :
                       IsExactHost(hosts[m]) /\ hosts[m].IPAddress = hosts[k].IPAddress
        /\ LET kept == SelectSeq(hosts, IsCIDRHost)
           IN  /\ Len(Nets) = Len(kept)
               /\ \A k \in 1..Len(kept) :
                     /\ Nets[k].host = kept[k]
                     /\ Nets[k].network = ParseCIDR(kept[k].IPAddress).network

C5_Witness ==
    /\ pc = "inventory"
    /\ Len(hosts) = 2
    /\ Known(hosts[1])
    /\ ContainsSlash(hosts[1].IPAddress)
    /\ ~ParseCIDR(hosts[1].IPAddress).ok
    /\ IsCIDRHost(hosts[2])
    /\ Len(Nets) = 1
    /\ Nets[1].host = hosts[2]

-----------------------------------------------------------------------------
(* Properties of socketstat.Collect (SocketstatSpec) *)

Peered == serverConnectionStat.PeeredConnSockets

Listening == serverConnectionStat.ListeningConnSockets

ListeningPorts == { Listening[k].LocalPort : k \in 1..Len(Listening) }

\* The listening socket that the port index holds for a port: the last one
IndexedListener(port) ==
    Listening[CHOOSE k \in 1..Len(Listening) :
                 /\ Listening[k].LocalPort = port
                 /\ \A m \in (k+1)..Len(Listening) : Listening[m].LocalPort # port]

\* Address and hostgroup that the inventory of the last Collect gives an IP
Resolved(ip) ==
    LET r == GetHost(inventoryHosts, ip)
    IN  [addr |-> IF r.found /\ r.host.Domain # EmptyString THEN r.host.Domain ELSE ip,
         hostgroup |-> IF r.found THEN r.host.Hostgroup ELSE EmptyString]

\* The tuple (direction, remoteHostgroup, remoteAddress, port, protocol) a
\* peered socket is classified into; direction "none" when it is left out
TupleOfSocket(s) ==
    LET remote == Resolved(s.RemoteIP) IN
    IF s.LocalPort \in ListeningPorts
    THEN <<"down", remote.hostgroup, remote.addr, Sprint(s.LocalPort), s.Protocol>>
    ELSE IF remote.addr # Localhost
    THEN <<"up", remote.hostgroup, remote.addr, Sprint(s.RemotePort), s.Protocol>>
    ELSE <<"none", remote.hostgroup, remote.addr, Sprint(s.RemotePort), s.Protocol>>

TupleOfRecord(direction, r) ==
    <<direction, r.RemoteHostgroup, r.RemoteAddress, r.Port, r.Protocol>>

RecordsWithTuple(t) ==
    IF t[1] = "down"
    THEN { k \in 1..Len(downstreams) : TupleOfRecord("down", downstreams[k]) = t }
    ELSE { k \in 1..Len(upstreams) : TupleOfRecord("up", upstreams[k]) = t }

\* C6: after a Collect, every tuple (direction, remoteHostgroup, remoteAddress,
\* port, protocol) that some peered socket of the snapshot is classified into
\* has exactly one record in the published lists.
C6_ExactlyOneRecordPerTuple ==
    (pc = "collected") =>
        \A i \in 1..Len(Peered) :
            TupleOfSocket(Peered[i])[1] # "none" =>
                Cardinality(RecordsWithTuple(TupleOfSocket(Peered[i]))) = 1

\* C7: a peered socket whose local port is a listening port yields no
\* upstream record and is covered by a downstream record of its port and
\* protocol; every upstream record comes from a socket whose local port is
\* not a listening port, every downstream record from one whose port is.
C7_DownstreamPrecedence ==
    (pc = "collected") =>
        /\ \A k \in 1..Len(upstreams) : Peered[upstreamsFrom[k]].LocalPort \notin ListeningPorts
        /\ \A k \in 1..Len(downstreams) : Peered[downstreamsFrom[k]].LocalPort \in ListeningPorts
        /\ \A i \in 1..Len(Peered) :
              Peered[i].LocalPort \in ListeningPorts =>
                 \E k \in 1..Len(downstreams) :
                    /\ downstreams[k].Port = Sprint(Peered[i].LocalPort)
                    /\ downstreams[k].Protocol = Peered[i].Protocol

C7_Witness ==
    /\ pc = "collected"
    /\ Len(upstreams) = 1
    /\ Len(downstreams) = 1
    /\ downstreams[1].RemoteAddress # Localhost
    /\ downstreams[1].RemoteAddress = upstreams[1].RemoteAddress
    /\ Peered[downstreamsFrom[1]].RemotePort \notin ListeningPorts

\* The number of times each element occurs in a sequence
BagOf(seq) ==
    [x \in { seq[k] : k \in 1..Len(seq) } |-> Cardinality({ k \in 1..Len(seq) : seq[k] = x })]

\* The snapshot with both of its lists reordered
PermutedStat(p, q) ==
    [PeeredConnSockets |-> Permuted(Peered, p), ListeningConnSockets |-> Permuted(Listening, q)]

KeyOf(direction, r) ==
    connString(direction, r.RemoteHostgroup, r.RemoteAddress, r.Port, r.Protocol)

KeyOfSocket(s) ==
    LET t == TupleOfSocket(s) IN connString(t[1], t[2], t[3], t[4], t[5])

KeysOf(direction, records) == [k \in 1..Len(records) |-> KeyOf(direction, records[k])]

\* C27: two peered sockets of a snapshot get the same dedup key only if they
\* are classified into the same tuple (direction, remoteHostgroup,
\* remoteAddress, port, protocol), so that every classified socket is covered
\* by a record of its own tuple.
C27_DedupKeyInjective ==
    (pc = "collected") =>
        /\ \A i, j \in 1..Len(Peered) :
              (/\ TupleOfSocket(Peered[i])[1] # "none"
               /\ TupleOfSocket(Peered[j])[1] # "none"
               /\ KeyOfSocket(Peered[i]) = KeyOfSocket(Peered[j]))
              => TupleOfSocket(Peered[i]) = TupleOfSocket(Peered[j])
        /\ \A i \in 1..Len(Peered) :
              TupleOfSocket(Peered[i])[1] # "none" =>
                 RecordsWithTuple(TupleOfSocket(Peered[i])) # {}

\* C8 as claimed: every permutation of the listening sockets and of the
\* peered sockets yields the same multiset of full downstream records and
\* the same multiset of full upstream records.
C8_SameRecordsInAnyOrder ==
    (pc = "collected") =>
        \A p \in Permutations(1..Len(Peered)), q \in Permutations(1..Len(Listening)) :
            LET out == collect(PermutedStat(p, q), currentIP, inventoryHosts)
            IN  /\ BagOf(out.downstreams) = BagOf(downstreams)
                /\ BagOf(out.upstreams) = BagOf(upstreams)

\* C8 as amended: the dedup keys of the downstream records are the keys of
\* the sockets classified downstream, each once, and likewise for the
\* upstream records; these are sets over the sockets of the snapshot, so
\* every order of the two lists yields the same multiset of keys.
C8_SameKeysInAnyOrder ==
    (pc = "collected") =>
        /\ BagOf(KeysOf("down", downstreams)) =
              [key \in { KeyOfSocket(Peered[i]) : i \in { j \in 1..Len(Peered) :
                            TupleOfSocket(Peered[j])[1] = "down" } } |-> 1]
        /\ BagOf(KeysOf("up", upstreams)) =
              [key \in { KeyOfSocket(Peered[i]) : i \in { j \in 1..Len(Peered) :
                            TupleOfSocket(Peered[j])[1] = "up" } } |-> 1]

C8_Witness ==
    /\ pc = "collected"
    /\ Len(Peered) = 2
    /\ Len(downstreams) = 1
    /\ Len(upstreams) = 0
    /\ \E p \in Permutations(1..Len(Peered)) :
          LET out == collect(PermutedStat(p, [k \in 1..Len(Listening) |-> k]), currentIP, inventoryHosts)
          IN  /\ out.downstreams # downstreams
              /\ KeysOf("down", out.downstreams) = KeysOf("down", downstreams)

\* C9: a downstream record whose peered socket has an empty process name
\* carries the process name of the listening socket indexed under the
\* socket's local port, any other downstream record the socket's own name;
\* so no downstream record has an empty process name when the listener
\* indexed for its port has a name.
C9_ProcessNameRecovered ==
    (pc = "collected") =>
        \A k \in 1..Len(downstreams) :
            LET s == Peered[downstreamsFrom[k]]
                listeningConn == IndexedListener(s.LocalPort)
            IN  /\ s.ProcessName = EmptyString =>
                      downstreams[k].ProcessName = listeningConn.ProcessName
                /\ s.ProcessName # EmptyString =>
                      downstreams[k].ProcessName = s.ProcessName
                /\ listeningConn.ProcessName # EmptyString =>
                      downstreams[k].ProcessName # EmptyString

C9_Witness ==
    /\ pc = "collected"
    /\ Len(Listening) = 2
    /\ Listening[1].LocalPort = Listening[2].LocalPort
    /\ Listening[1].ProcessName # Listening[2].ProcessName
    /\ \E k \in 1..Len(downstreams) :
          /\ Peered[downstreamsFrom[k]].ProcessName = EmptyString
          /\ downstreams[k].ProcessName = Listening[2].ProcessName

AllRecords == downstreams \o upstreams

AllRecordsFrom == downstreamsFrom \o upstreamsFrom

\* C10: a record that comes from a peered socket with local address 127.0.0.1
\* has as local address and local hostgroup what the inventory gives the
\* address returned by network.LocalIP; when that is hostgroup h, the
\* record's local hostgroup is h.
C10_LoopbackRewritten ==
    (pc = "collected") =>
        \A k \in 1..Len(AllRecords) :
            Peered[AllRecordsFrom[k]].LocalIP = LoopbackString =>
                /\ AllRecords[k].LocalAddress = Resolved(currentIP).addr
                /\ AllRecords[k].LocalHostgroup = Resolved(currentIP).hostgroup
                /\ GetHost(inventoryHosts, currentIP).found =>
                      AllRecords[k].LocalHostgroup = GetHost(inventoryHosts, currentIP).host.Hostgroup

C10_Witness ==
    /\ pc = "collected"
    /\ GetHost(inventoryHosts, currentIP).found
    /\ GetHost(inventoryHosts, LoopbackString).found
    /\ \E k \in 1..Len(AllRecords) :
          /\ Peered[AllRecordsFrom[k]].LocalIP = LoopbackString
          /\ AllRecords[k].LocalHostgroup = <<"self">>
          /\ AllRecords[k].LocalAddress = currentIP

Range(f) == { f[k] : k \in DOMAIN f }

\* A peered socket that is no downstream and whose remote address resolves to "localhost"
LocalhostUpstream(s) ==
    s.LocalPort \notin ListeningPorts /\ Resolved(s.RemoteIP).addr = Localhost

\* C11: after a Collect no upstream record has remote address "localhost",
\* and a peered socket whose local port is not a listening port and whose
\* remote address resolves to "localhost" is behind no record.
C11_NoLocalhostUpstream ==
    (pc = "collected") =>
        /\ \A k \in 1..Len(upstreams) : upstreams[k].RemoteAddress # Localhost
        /\ \A i \in 1..Len(Peered) :
              LocalhostUpstream(Peered[i]) =>
                 i \notin Range(upstreamsFrom) \cup Range(downstreamsFrom)

C11_Witness ==
    /\ pc = "collected"
    /\ Len(Peered) = 2
    /\ LocalhostUpstream(Peered[1])
    /\ ~LocalhostUpstream(Peered[2])
    /\ upstreamsFrom = <<2>>
    /\ downstreams = <<>>

\* The local IP that is looked up for a peered socket
LookedUpLocalIP(s) == localIPOf(s, currentIP)

Missed(ip) == ~GetHost(inventoryHosts, ip).found

\* C12: in every record, a local IP (after the loopback rewrite) that the
\* inventory does not know is the record's local address with an empty local
\* hostgroup, and likewise for the remote IP; and every peered socket with
\* such a miss that is a downstream or an upstream is still covered by a
\* record with its dedup key.
C12_LookupMissFallback ==
    (pc = "collected") =>
        /\ \A k \in 1..Len(AllRecords) :
              LET s == Peered[AllRecordsFrom[k]] IN
              /\ Missed(LookedUpLocalIP(s)) =>
                     /\ AllRecords[k].LocalAddress = LookedUpLocalIP(s)
                     /\ AllRecords[k].LocalHostgroup = EmptyString
              /\ Missed(s.RemoteIP) =>
                     /\ AllRecords[k].RemoteAddress = s.RemoteIP
                     /\ AllRecords[k].RemoteHostgroup = EmptyString
        /\ \A i \in 1..Len(Peered) :
              (/\ Missed(LookedUpLocalIP(Peered[i])) \/ Missed(Peered[i].RemoteIP)
               /\ ~LocalhostUpstream(Peered[i]))
              => LET direction == TupleOfSocket(Peered[i])[1]
                     records == IF direction = "down" THEN downstreams ELSE upstreams
                 IN  \E k \in 1..Len(records) :
                        KeyOf(direction, records[k]) = KeyOfSocket(Peered[i])

C12_Witness ==
    /\ pc = "collected"
    /\ \E k \in 1..Len(upstreams) :
          LET s == Peered[upstreamsFrom[k]] IN
          /\ Missed(LookedUpLocalIP(s))
          /\ ~Missed(s.RemoteIP)
          /\ upstreams[k].LocalAddress = LookedUpLocalIP(s)
          /\ upstreams[k].LocalHostgroup = EmptyString
          /\ upstreams[k].RemoteHostgroup # EmptyString

-----------------------------------------------------------------------------
(* Properties of parseHosts (ParseHostsSpec) *)

WellFormed(entry) == entry.kind = "object"

\* The Host whose fields are exactly those of the object
HostOfEntry(entry) == unmarshal(entry.fields, ZeroHost)

\* The Hosts of the well-formed entries of the body, in stream order
WellFormedHosts ==
    LET kept == SelectSeq(data, WellFormed)
    IN  [k \in 1..Len(kept) |-> HostOfEntry(kept[k])]

\* The body holds exactly one entry that the decoder rejects
OneRejected == Cardinality({ k \in 1..Len(data) : ~WellFormed(data[k]) }) = 1

\* That entry stands between well-formed entries
OneMalformedBetween ==
    /\ OneRejected
    /\ Len(data) >= 3
    /\ WellFormed(data[1])
    /\ WellFormed(data[Len(data)])

\* C15: on an ndjson body with one malformed entry between well-formed ones,
\* parseHosts returns without error the Hosts of all well-formed entries,
\* those before and those after the malformed one, in stream order.
C15_NDJSONSkipsMalformed ==
    (pc \in {"parsed", "parsing"} /\ format = fmtNDJSON /\ OneMalformedBetween) =>
        /\ parseResult.returns
        /\ parseResult.err = Nil
        /\ parseResult.result = WellFormedHosts

\* C16: in both formats, when one entry of the body is rejected, parseHosts
\* returns the other entries and inventory.Collect publishes the inventory
\* built from them (and the localhost entry).
C16_PartialSuccessInBothFormats ==
    (pc \in {"collected", "collecting"} /\ OneRejected) =>
        /\ parseResult.returns
        /\ parseResult.err = Nil
        /\ parseResult.result = WellFormedHosts
        /\ values = inventoryCollect(WellFormedHosts)

\* C17: on an ndjson body of well-formed objects, parseHosts returns one Host
\* per object, in stream order, each with exactly the fields of its own
\* object: an omitted field is empty.
C17_NDJSONOwnFields ==
    (/\ pc \in {"parsed", "parsing"}
     /\ format = fmtNDJSON
     /\ \A k \in 1..Len(data) : WellFormed(data[k]))
    => /\ parseResult.returns
       /\ parseResult.err = Nil
       /\ Len(parseResult.result) = Len(data)
       /\ \A k \in 1..Len(data) : parseResult.result[k] = HostOfEntry(data[k])

\* C26: on every ndjson body parseHosts returns, and so does the
\* inventory.Collect that called it, whatever entries the decoder rejects.
C26_NDJSONTerminates ==
    (pc # "body" /\ format = fmtNDJSON) => parseResult.returns

\* C28: the inventory that a successful inventory.Collect publishes resolves
\* "127.0.0.1" to the localhost Host, found, whatever the feed holds.
C28_LoopbackIsLocalhost ==
    (pc = "collected" /\ parseResult.err = Nil) =>
        GetHost(values, LoopbackString) = [host |-> LocalhostHost, found |-> TRUE]

\* The feed had an exact entry for 127.0.0.1 and a network containing it
C28_Witness ==
    /\ pc = "collected"
    /\ parseResult.err = Nil
    /\ \E k \in 1..Len(parseResult.result) :
          /\ parseResult.result[k].IPAddress = LoopbackString
          /\ parseResult.result[k].Domain = <<"d">>
    /\ \E k \in 1..Len(values.networkCIDRAddresses) :
          Contains(values.networkCIDRAddresses[k].network, Loopback)
    /\ GetHost(values, LoopbackString).host = LocalhostHost


-----------------------------------------------------------------------------
(* Properties of the collection cycles and of the Get calls (ServiceSpec) *)

\* What socketstat.Get would return now
PublishedLists ==
    socketstatGet(heap, socketstatTask.serverProcesses, socketstatTask.upstreams,
                  socketstatTask.downstreams)

SocketstatCollectFailed == scheduler.pc = "fDefault.returned" /\ scheduler.err # Nil

\* C13: when socketstat.Collect has returned an error, socketstat.Get returns
\* the triple it returned before the call: the same lists with the same
\* contents, never emptied or partly replaced.
C13_StaleButValidOnFailure ==
    SocketstatCollectFailed => PublishedLists = scheduler.before

\* A Collect fails on the local IP after an earlier cycle has published records
C13_Witness ==
    /\ SocketstatCollectFailed
    /\ scheduler.err = LocalIPError
    /\ scheduler.before.items[2] # <<>>
    /\ scheduler.before.items[3] # <<>>

InventoryCollectFailed == scheduler.pc = "fInventory.returned" /\ scheduler.err # Nil

InventoryFailures ==
    { k \in DOMAIN scheduler.logged : scheduler.logged[k][1] = "Inventory collect failed" }

\* C14: when inventory.Collect has returned an error, inventory.Get returns
\* what it returned before the call; and the scheduler's step after such a
\* return only adds the error to the log and goes on to the next Collect or
\* back to waiting for the tickers, with both singletons and their
\* containers untouched.
C14_InventoryUnchangedOnError ==
    /\ [](InventoryCollectFailed => inventoryGet(heap, inventoryTask) = scheduler.before)
    /\ [][InventoryCollectFailed =>
            /\ scheduler'.logged =
                  Append(scheduler.logged, <<"Inventory collect failed", scheduler.err>>)
            /\ scheduler'.pc \in {"fDefault", "select"}
            /\ UNCHANGED <<inventoryTask, socketstatTask, heap>>]_scheduler

\* An inventory published by the first cycle is still the one in place after
\* a later inventory.Collect failed, and a socketstat cycle after that
\* failure has published records
C14_Witness ==
    /\ InventoryFailures # {}
    /\ heap[inventoryTask.values.ipAddresses].by = 1
    /\ InventoryAt(heap, inventoryTask.values) # InitInventory
    /\ scheduler.pc = "select"
    /\ heap[socketstatTask.upstreams].by = scheduler.cycle
    /\ heap[socketstatTask.upstreams].items # <<>>

\* Every record of a published list has empty hostgroups, and as addresses
\* the IPs of the socket behind it, the local one after the loopback rewrite
RawRecords(cell) ==
    \A k \in DOMAIN cell.items :
       /\ cell.items[k].LocalHostgroup = EmptyString
       /\ cell.items[k].RemoteHostgroup = EmptyString
       /\ cell.items[k].LocalAddress = localIPOf(cell.from[k], LocalIPString)
       /\ cell.items[k].RemoteAddress = cell.from[k].RemoteIP

\* C18: with the inventory task disabled, inventory.Get returns the empty
\* inventory of init(), and every published upstream and downstream record
\* has empty hostgroups and the raw IPs as addresses.
C18_DisabledInventory ==
    ~config.inventoryEnabled =>
       /\ inventoryGet(heap, inventoryTask) = inventoryGet(InitHeap, InitInventoryTask)
       /\ RawRecords(heap[socketstatTask.upstreams])
       /\ RawRecords(heap[socketstatTask.downstreams])

\* Inventory disabled, inventory and socketstat cycles after the start-up
\* ones, and records published for a loopback-bound downstream and an upstream
C18_Witness ==
    /\ ~config.inventoryEnabled
    /\ scheduler.ticks = MaxTicks
    /\ scheduler.cycle >= 4
    /\ heap[socketstatTask.upstreams].items # <<>>
    /\ \E k \in DOMAIN heap[socketstatTask.downstreams].from :
          heap[socketstatTask.downstreams].from[k].LocalIP = LoopbackString

\* C19: the three lists that a socketstat.Get call returned were made by the
\* same Collect call (or are the three of init()).
C19_ConsistentRead ==
    reader.held.kind = "socketstat" =>
       /\ heap[reader.held.refs[1]].by = heap[reader.held.refs[2]].by
       /\ heap[reader.held.refs[2]].by = heap[reader.held.refs[3]].by

\* A reader holds the triple of a cycle while a later Collect is in the
\* middle of its three assignments
C19_Witness ==
    /\ reader.held.kind = "socketstat"
    /\ heap[reader.held.refs[1]].by >= 1
    /\ scheduler.pc = "socketstat.upstreams"
    /\ heap[socketstatTask.serverProcesses].by # heap[socketstatTask.downstreams].by

\* C20: the containers that a Get call returned hold what they held when it
\* returned them.
C20_CopyAndSwap ==
    reader.held.kind # "none" =>
       \A k \in DOMAIN reader.held.refs : heap[reader.held.refs[k]].items = reader.held.items[k]

\* A reader holds record lists that a later cycle has replaced by other lists
\* with other contents
C20_Witness ==
    /\ reader.held.kind = "socketstat"
    /\ reader.held.items[2] # <<>>
    /\ reader.held.refs[2] # socketstatTask.upstreams
    /\ heap[socketstatTask.upstreams].items # reader.held.items[2]


SocketstatFailures ==
    { k \in DOMAIN scheduler.logged : scheduler.logged[k][1] = "Socketstat collect failed" }

\* C22: whenever socketstat.Collect is not in the middle of its three
\* assignments, the three published lists are those that the last successful
\* socketstat.Collect made (those of init() if none succeeded); and no step
\* replaces a published list by one that an earlier Collect made.
C22_LatestSuccessfulCycleWins ==
    /\ [](scheduler.pc \notin {"socketstat.upstreams", "socketstat.downstreams"} =>
            \A k \in 1..3 : heap[PublishedLists.refs[k]].by = scheduler.succeeded)
    /\ [][/\ heap'[socketstatTask'.serverProcesses].by >= heap[socketstatTask.serverProcesses].by
          /\ heap'[socketstatTask'.upstreams].by >= heap[socketstatTask.upstreams].by
          /\ heap'[socketstatTask'.downstreams].by >= heap[socketstatTask.downstreams].by]_vars

\* A successful cycle, then a later successful cycle with another output,
\* then a failed one: the lists of the second are the published ones
C22_Witness ==
    /\ scheduler.pc = "select"
    /\ SocketstatFailures # {}
    /\ scheduler.succeeded > 2
    /\ scheduler.cycle > scheduler.succeeded
    /\ heap[socketstatTask.upstreams].by = scheduler.succeeded
    /\ heap[socketstatTask.upstreams].items # <<>>
    /\ \E k \in 1..Len(heap) :
          /\ heap[k].by \in 1..(scheduler.succeeded - 1)
          /\ heap[k].from # <<>>
          /\ heap[k].items # heap[socketstatTask.upstreams].items
          /\ heap[k].items # heap[socketstatTask.downstreams].items

\* The number of metrics of a description sent for a collector
SentFor(desc, name) ==
    BagCardinality([m \in { x \in BagToSet(ch) : x.desc = desc /\ x.collector = name }
                       |-> CopiesIn(m, ch)])

\* C30: every goroutine is started by Collect; no goroutine has sent more than
\* one duration metric or more than one success metric, and a success metric
\* carries 1 exactly when the Update of its collector returned nil; when
\* Collect has returned, every collector's goroutine has finished and has
\* sent exactly one duration metric and exactly one success metric, whatever
\* the Updates of the other collectors returned.
C30_OneScrapePairPerCollector ==
    /\ \A name \in Collectors :
          /\ SentFor(scrapeDurationDesc, name) <= 1
          /\ SentFor(scrapeSuccessDesc, name) <= 1
          /\ \A m \in BagToSet(ch) :
                (m.desc = scrapeSuccessDesc /\ m.collector = name) =>
                   /\ m.value \in {0, 1}
                   /\ m.value = 1 <=> exec[name].err = Nil
    /\ collect_pc = "returned" =>
          \A name \in Collectors :
             /\ exec[name].pc = "exited"
             /\ SentFor(scrapeDurationDesc, name) = 1
             /\ SentFor(scrapeSuccessDesc, name) = 1

\* Collect has returned after a scrape in which one Update failed and another
\* succeeded, each with its own pair of metrics
C30_Witness ==
    /\ collect_pc = "returned"
    /\ \E a, b \in Collectors :
          /\ exec[a].err = ErrUpdate
          /\ exec[b].err = Nil
          /\ BagIn(Metric(scrapeSuccessDesc, 0, a), ch)
          /\ BagIn(Metric(scrapeSuccessDesc, 1, b), ch)
          /\ SentFor(scrapeDurationDesc, a) = 1
          /\ SentFor(scrapeDurationDesc, b) = 1

-----------------------------------------------------------------------------
(* Properties of Service.collect and of the Collect calls (CycleSpec) *)

InFlight(task) == { c \in calls : c.task = task }

\* C23: at no time are two Collect calls in flight, of one task or of two, and
\* Service.collect is waiting for the call whenever one is in flight, also
\* when the ticker has fired, more than once, since the cycle started.
C23_CyclesNotPipelined ==
    /\ Cardinality(calls) <= 1
    /\ calls # {} <=> loop.pc = "wait"

C23_Witness ==
    /\ \E c \in InFlight("socketstat") : c.n >= 2 /\ c.pc = "getInventoryAddrAndHostgroup"
    /\ tickerC.default = 1
    /\ tickerC.dropped
    /\ tickerC.inventory = 1
    /\ loop.pc = "wait"

\* The Collect calls that hold the mutex of their task
Holders == { c \in calls : mutex[c.task] = IdOf(c) }

Assigning(c) ==
    c.pc \in {"singleton.values = inventory", "singleton.hosts = hosts",
              "singleton.upstreams = upstreams"}

Copying == getter.pc = "up := singleton.upstreams"

\* C21: a Collect call holds the mutex of its task only at its assignments,
\* and Get only at its copies; so a Get that is at its Lock while no Collect
\* is at its assignments can take the mutex, and a Get that copies while the
\* first socketstat.Collect is in flight copies the lists published before.
C21_ReadersNeverWaitForRecomputation ==
    /\ \A c \in calls : c \in Holders <=> Assigning(c)
    /\ mutex.socketstat = Getting <=> Copying
    /\ (getter.pc = "mu.Lock" /\ \A c \in InFlight("socketstat") : ~Assigning(c))
          => ENABLED GetLock
    /\ (Copying /\ \E c \in InFlight("socketstat") : c.n = 1)
          => snapshot.lists = InitSnapshot.lists

C21_Witness ==
    /\ Copying
    /\ \E c \in InFlight("socketstat") :
          c.n >= 2 /\ c.pc = "getInventoryAddrAndHostgroup" /\ c.lookups = 1
    /\ snapshot.lists.seen # {}

\* C24: the lookups of one socketstat.Collect call are all answered by one
\* inventory, while it runs and in the lists that it publishes.
C24_OneInventoryPerCycle ==
    /\ \A c \in calls : Cardinality(c.seen) <= 1
    /\ Cardinality(snapshot.lists.seen) <= 1

C24_Witness ==
    /\ snapshot.inventory = 2
    /\ snapshot.lists.seen = {1}
    /\ \E c \in InFlight("socketstat") : c.lookups = 1 /\ c.seen = {2}

====
